---- MODULE Spec2Model ----
(***************************************************************************)
(* Model of the meme generator backend: the template catalog listing       *)
(* (controllers/templateController.js and routes/templateRoutes.js), its   *)
(* process-local templateCache, the lazy seeding from the external         *)
(* template source and the Template model's schema validation; the meme    *)
(* routes (create, like/unlike, delete: routes/memes.js with models/Meme.js *)
(* and services/cloudinaryService.js) and the favorite toggle of           *)
(* routes/templateRoutes.js.                                               *)
(*                                                                         *)
(* Strings are sequences of one-character strings so that trim,            *)
(* toLowerCase, parseInt and the case-insensitive $regex match are         *)
(* computed rather than assumed.                                           *)
(***************************************************************************)
EXTENDS Integers, Sequences, FiniteSets, TLC

\* ------------------------------------------------------------------------
\* Bounds of the model
\* ------------------------------------------------------------------------
MaxStore == 1      \* templates the upload route may add to the collection
NumExternal == 3   \* records the external template source returns
MaxTicks == 2      \* clock advances the model explores
MaxRequests == 3   \* requests the meme and favorite routes accept
MaxUploads == 3    \* templates stored when only the upload route runs
CatalogSize == 25  \* templates of the catalog the paging is checked on
ServerRequests == 2  \* favorite and meme requests when every route is served
MaxElapses == 2    \* advances of the clock while the limiters are watched
MaxOver == 2       \* requests a limiter counts beyond max in one window

\* ------------------------------------------------------------------------
\* Program constants
\* ------------------------------------------------------------------------
expiresIn == 15 * 60 * 1000
DefaultPage == 1
DefaultLimit == 20
MaxLimit == 100
MinDimension == 100
MaxDimension == 5000
MaxNameLength == 100
RandomPopularityRange == 1000
PreviewDefaultLimit == 10
MaxTags == 10
PreviewMaxLimit == 50

Procs == {1, 2}
Users == {1, 2}

\* ------------------------------------------------------------------------
\* Strings
\* ------------------------------------------------------------------------
Empty == <<>>
Funny == <<"F", "u", "n", "n", "y">>
Animals == <<"A", "n", "i", "m", "a", "l", "s">>
Movies == <<"M", "o", "v", "i", "e", "s">>
TVShows == <<"T", "V", " ", "S", "h", "o", "w", "s">>
Celebrities == <<"C", "e", "l", "e", "b", "r", "i", "t", "i", "e", "s">>
Gaming == <<"G", "a", "m", "i", "n", "g">>
Anime == <<"A", "n", "i", "m", "e">>
Politics == <<"P", "o", "l", "i", "t", "i", "c", "s">>
Other == <<"O", "t", "h", "e", "r">>
popular == <<"p", "o", "p", "u", "l", "a", "r">>
pending == <<"p", "e", "n", "d", "i", "n", "g">>
active == <<"a", "c", "t", "i", "v", "e">>
rejected == <<"r", "e", "j", "e", "c", "t", "e", "d">>
archived == <<"a", "r", "c", "h", "i", "v", "e", "d">>

UpperToLower ==
  [A |-> "a", C |-> "c", D |-> "d", F |-> "f", G |-> "g", M |-> "m",
   O |-> "o", P |-> "p", S |-> "s", T |-> "t", V |-> "v"]

toLowerCase(s) ==
  [i \in DOMAIN s |-> IF s[i] \in DOMAIN UpperToLower THEN UpperToLower[s[i]] ELSE s[i]]

trim(s) ==
  LET keep == {i \in DOMAIN s : s[i] # " "}
  IN  IF keep = {} THEN Empty
      ELSE SubSeq(s, CHOOSE i \in keep : \A j \in keep : i <= j,
                     CHOOSE i \in keep : \A j \in keep : j <= i)

\* s.split(sep) for a one-character separator
RECURSIVE split(_, _)
split(s, sep) ==
  IF \A i \in DOMAIN s : s[i] # sep THEN <<s>>
  ELSE LET i == CHOOSE k \in DOMAIN s : s[k] = sep /\ \A j \in 1..(k - 1) : s[j] # sep
       IN  <<SubSeq(s, 1, i - 1)>> \o split(SubSeq(s, i + 1, Len(s)), sep)

\* [...new Set(array)]: the first occurrence of each element, in order
RECURSIVE unique(_)
unique(array) ==
  IF array = <<>> THEN <<>>
  ELSE LET front == unique(SubSeq(array, 1, Len(array) - 1))
           last == array[Len(array)]
       IN  IF \E i \in DOMAIN front : front[i] = last THEN front ELSE Append(front, last)

includes(hay, needle) ==
  \E i \in 0..(Len(hay) - Len(needle)) : SubSeq(hay, i + 1, i + Len(needle)) = needle

\* { field: { $regex: pattern, $options: 'i' } } for a pattern of literal characters
regexMatchI(field, pattern) == includes(toLowerCase(field), toLowerCase(pattern))

startsWith(s, prefix) == Len(s) >= Len(prefix) /\ SubSeq(s, 1, Len(prefix)) = prefix

\* ------------------------------------------------------------------------
\* Numbers: parseInt, ||, Math.min/max, Math.ceil of a quotient, Array.slice
\* ------------------------------------------------------------------------
DigitValue ==
  [c \in {"0", "1", "2", "3", "4", "5", "6", "7", "8", "9"} |->
     CASE c = "0" -> 0 [] c = "1" -> 1 [] c = "2" -> 2 [] c = "3" -> 3 [] c = "4" -> 4
       [] c = "5" -> 5 [] c = "6" -> 6 [] c = "7" -> 7 [] c = "8" -> 8 [] c = "9" -> 9]

RECURSIVE digitRun(_, _, _)
digitRun(s, i, acc) ==
  IF i <= Len(s) /\ s[i] \in DOMAIN DigitValue
  THEN digitRun(s, i + 1, acc * 10 + DigitValue[s[i]])
  ELSE acc

RECURSIVE skipSpaces(_, _)
skipSpaces(s, i) == IF i <= Len(s) /\ s[i] = " " THEN skipSpaces(s, i + 1) ELSE i

\* parseInt(s): leading blanks, an optional sign, the longest run of digits;
\* NaN when there is no digit.  An absent query parameter is the empty string.
parseInt(s) ==
  LET b == skipSpaces(s, 1)
      signed == b <= Len(s) /\ s[b] \in {"-", "+"}
      d == IF signed THEN b + 1 ELSE b
      hasDigit == d <= Len(s) /\ s[d] \in DOMAIN DigitValue
      magnitude == digitRun(s, d, 0)
  IN  [nan |-> ~hasDigit,
       val |-> IF ~hasDigit THEN 0
               ELSE IF signed /\ s[b] = "-" THEN 0 - magnitude ELSE magnitude]

\* n || fallback for a number n: NaN and 0 are falsy
orDefault(n, fallback) == IF n.nan \/ n.val = 0 THEN fallback ELSE n.val

Min(a, b) == IF a <= b THEN a ELSE b
Max(a, b) == IF a >= b THEN a ELSE b

\* a quotient rounded down instead of up
floorDiv(total, limit) ==
  IF limit > 0 THEN total \div limit
  ELSE 0 - ((total + (0 - limit) - 1) \div (0 - limit))

\* Math.ceil(total / limit) for total >= 0 and limit # 0
ceilDiv(total, limit) ==
  IF limit > 0 THEN (total + limit - 1) \div limit
  ELSE 0 - (total \div (0 - limit))

\* Array.prototype.slice(start, end)
slice(data, start, end) ==
  LET len == Len(data)
      from == IF start < 0 THEN Max(len + start, 0) ELSE Min(start, len)
      to == IF end < 0 THEN Max(len + end, 0) ELSE Min(end, len)
  IN  IF from >= to THEN <<>> ELSE SubSeq(data, from + 1, to)

\* ------------------------------------------------------------------------
\* middleware/rateLimiter.js
\* ------------------------------------------------------------------------
OneMinute == 60 * 1000
startTime == 1

\* rateLimiter(maxRequests, windowMinutes): the options given to rateLimit
rateLimiter(maxRequests, windowMinutes) ==
  [windowMs |-> windowMinutes * 60 * 1000, max |-> maxRequests]

\* the limiters of GET /api/templates and of DELETE /api/memes/:id
limiterOf == [list |-> rateLimiter(30, 60), delete |-> rateLimiter(5, 60)]
LimitedRoutes == DOMAIN limiterOf
Clients == {1, 2}

\* ------------------------------------------------------------------------
\* The Template model (models/Template.js)
\* ------------------------------------------------------------------------
categoryEnum ==
  {Funny, Animals, Movies, TVShows, Celebrities, Gaming, Anime, Politics, Other}
statusEnum == {pending, active, rejected, archived}

https == <<"h", "t", "t", "p", "s", ":", "/", "/">>
http == <<"h", "t", "t", "p", ":", "/", "/">>
ftp == <<"f", "t", "p", ":", "/", "/">>

\* /^(https?|ftp):\/\/[^\s/$.?#].[^\s]*$/
urlValidator(v) ==
  \E scheme \in {https, http, ftp} :
    /\ startsWith(v, scheme)
    /\ Len(v) >= Len(scheme) + 2
    /\ v[Len(scheme) + 1] \notin {" ", "/", "$", ".", "?", "#"}
    /\ \A i \in (Len(scheme) + 3)..Len(v) : v[i] # " "

\* Schema validation run by save() and insertMany(): required paths, the
\* width/height range, the category and status enums, popularity >= 0.
\* A missing string path is Empty and a missing user reference is 0.
validateSync(doc) ==
  /\ doc.user # 0
  /\ doc.name # Empty /\ Len(doc.name) <= MaxNameLength
  /\ doc.imageUrl # Empty /\ urlValidator(doc.imageUrl)
  /\ doc.publicId # Empty
  /\ doc.width >= MinDimension /\ doc.width <= MaxDimension
  /\ doc.height >= MinDimension /\ doc.height <= MaxDimension
  /\ doc.category \in categoryEnum
  /\ Len(doc.tags) <= MaxTags
  /\ doc.popularity >= 0
  /\ doc.status \in statusEnum

\* new Template(fields): paths outside the schema are dropped (strict mode),
\* name is trimmed, absent paths take the schema defaults.
newTemplate(user, name, imageUrl, publicId, width, height, category, popularity, status, tags) ==
  [user |-> user, name |-> trim(name), imageUrl |-> imageUrl, publicId |-> publicId,
   width |-> width, height |-> height, category |-> category, tags |-> tags,
   popularity |-> popularity, status |-> status, usageCount |-> 0]

\* the hook trimming the tags without removing the repeated ones
preSaveTrimOnly(doc) == [doc EXCEPT !.tags = [i \in DOMAIN @ |-> trim(@[i])]]

\* templateSchema.pre('save'): runs after the validation, on template.save() only;
\* the tags of a new document count as modified
preSave(doc) == [doc EXCEPT !.tags = unique([i \in DOMAIN @ |-> trim(@[i])])]

\* The stored document: the store assigns _id, timestamps set createdAt.
stored(doc, id, at) ==
  [_id |-> id, user |-> doc.user, name |-> doc.name, imageUrl |-> doc.imageUrl,
   publicId |-> doc.publicId, width |-> doc.width, height |-> doc.height,
   category |-> doc.category, tags |-> doc.tags, popularity |-> doc.popularity,
   status |-> doc.status, usageCount |-> doc.usageCount, createdAt |-> at]

RECURSIVE storeAll(_, _, _)
storeAll(coll, docs, at) ==
  IF docs = <<>> THEN coll
  ELSE storeAll(Append(coll, stored(Head(docs), Len(coll) + 1, at)), Tail(docs), at)

\* Template.insertMany(docs): every document is validated first; one invalid
\* document rejects the call and nothing is written (ordered insert).
insertManyOk(docs) == \A i \in DOMAIN docs : validateSync(docs[i])
insertMany(coll, docs, at) == IF insertManyOk(docs) THEN storeAll(coll, docs, at) ELSE coll

\* ------------------------------------------------------------------------
\* Store queries
\* ------------------------------------------------------------------------
matches(doc, query) ==
  /\ query.hasOr => regexMatchI(doc.name, query.regex) \/ regexMatchI(doc.category, query.regex)
  /\ query.hasCategory => doc.category = query.category

find(coll, query) == SelectSeq(coll, LAMBDA d : matches(d, query))
countDocuments(coll, query) == Len(find(coll, query))

\* .sort({ popularity: -1, createdAt: -1 }): a before b is allowed
sortedBefore(a, b) ==
  \/ a.popularity > b.popularity
  \/ a.popularity = b.popularity /\ a.createdAt >= b.createdAt

\* every order of docs the sort allows (documents with equal keys in any order):
\* any document no other one must precede comes first, then the others likewise
RECURSIVE sortedReads(_)
sortedReads(docs) ==
  IF docs = <<>> THEN {<<>>}
  ELSE UNION {{<<docs[i]>> \o rest :
                 rest \in sortedReads([k \in 1..(Len(docs) - 1) |->
                                         IF k < i THEN docs[k] ELSE docs[k + 1]])} :
              i \in {h \in DOMAIN docs : \A j \in DOMAIN docs : sortedBefore(docs[h], docs[j])}}

\* .skip(skip).limit(limit) for skip >= 0; a negative limit reads |limit| documents
skipLimit(docs, skip, limit) ==
  LET n == IF limit < 0 THEN 0 - limit ELSE limit
  IN  IF skip >= Len(docs) THEN <<>>
      ELSE SubSeq(docs, skip + 1, IF n = 0 THEN Len(docs) ELSE Min(skip + n, Len(docs)))

\* .select('templateId name url width height category createdAt'): _id is always
\* included; templateId and url are not paths of the schema
select(doc) ==
  [_id |-> doc._id, name |-> doc.name, width |-> doc.width, height |-> doc.height,
   category |-> doc.category, createdAt |-> doc.createdAt]

selectAll(docs) == [i \in DOMAIN docs |-> select(docs[i])]

\* ------------------------------------------------------------------------
\* controllers/templateController.js: pure helpers
\* ------------------------------------------------------------------------
buildTemplateQuery(search, category) ==
  [hasOr |-> search # Empty, regex |-> search,
   hasCategory |-> category # Empty, category |-> toLowerCase(category)]

\* paginateResults reporting the length of the page instead of the snapshot's
paginateResultsPageTotal(data, page, limit) ==
  LET startIndex == (page - 1) * limit
      endIndex == page * limit
      templates == slice(data, startIndex, endIndex)
  IN  [status |-> 200, success |-> TRUE, fromCache |-> TRUE,
       templates |-> templates,
       hasNext |-> endIndex < Len(data),
       hasPrevious |-> startIndex > 0,
       pagination |-> [currentPage |-> page,
                       totalPages |-> ceilDiv(Len(templates), limit),
                       totalTemplates |-> Len(templates),
                       limit |-> limit]]

\* paginateResults(data, page, limit): the cached path's response
paginateResults(data, page, limit) ==
  LET startIndex == (page - 1) * limit
      endIndex == page * limit
  IN  [status |-> 200, success |-> TRUE, fromCache |-> TRUE,
       templates |-> slice(data, startIndex, endIndex),
       hasNext |-> endIndex < Len(data),
       hasPrevious |-> startIndex > 0,
       pagination |-> [currentPage |-> page,
                       totalPages |-> ceilDiv(Len(data), limit),
                       totalTemplates |-> Len(data),
                       limit |-> limit]]

\* res.json({ success: true, templates, pagination: {...} }): the store path's response
storeResponse(templates, total, page, limit) ==
  [status |-> 200, success |-> TRUE, fromCache |-> FALSE,
   templates |-> templates,
   hasNext |-> FALSE,
   hasPrevious |-> FALSE,
   pagination |-> [currentPage |-> page,
                   totalPages |-> ceilDiv(total, limit),
                   totalTemplates |-> total,
                   limit |-> limit]]

\* res.status(500).json({ success: false, message: 'Failed to fetch templates' })
failureResponse ==
  [status |-> 500, success |-> FALSE, fromCache |-> FALSE,
   templates |-> <<>>, hasNext |-> FALSE, hasPrevious |-> FALSE,
   pagination |-> [currentPage |-> 0, totalPages |-> 0, totalTemplates |-> 0, limit |-> 0]]

noResponse ==
  [status |-> 0, success |-> FALSE, fromCache |-> FALSE,
   templates |-> <<>>, hasNext |-> FALSE, hasPrevious |-> FALSE,
   pagination |-> [currentPage |-> 0, totalPages |-> 0, totalTemplates |-> 0, limit |-> 0]]

\* const page = parseInt(req.query.page) || 1
queryPage(raw) == orDefault(parseInt(raw), DefaultPage)
\* const limit = Math.min(parseInt(req.query.limit) || 20, 100)
queryLimit(raw) == Min(orDefault(parseInt(raw), DefaultLimit), MaxLimit)
querySkip(rawPage, rawLimit) == (queryPage(rawPage) - 1) * queryLimit(rawLimit)

\* routes/templateRoutes.js GET /: pageNum and limitNum
routePageNum(raw) == Max(orDefault(parseInt(raw), DefaultPage), 1)
routeLimitNum(raw) == Min(Max(orDefault(parseInt(raw), DefaultLimit), 1), MaxLimit)

\* routes/templateRoutes.js GET /: the query, its matches and the pages
\* Template.paginate may return for the default sort { createdAt: -1 }
routeQuery(search, category) ==
  [status |-> active, hasName |-> search # Empty, regex |-> trim(search),
   hasCategory |-> category # Empty /\ category \in categoryEnum, category |-> category]

routeMatches(doc, q) ==
  /\ doc.status = q.status
  /\ q.hasName => regexMatchI(doc.name, q.regex)
  /\ q.hasCategory => doc.category = q.category

newestFirst(docs) ==
  LET n == Len(docs)
      perms == {f \in [1..n -> 1..n] : \A i, j \in 1..n : i # j => f[i] # f[j]}
  IN  {[i \in 1..n |-> docs[f[i]]] :
         f \in {g \in perms : \A i, j \in 1..n :
                               i < j => docs[g[i]].createdAt >= docs[g[j]].createdAt}}

listTemplates(coll, r) ==
  LET q == routeQuery(r.search, r.category)
      pageNum == routePageNum(r.page)
      limitNum == routeLimitNum(r.limit)
  IN  {skipLimit(sorted, (pageNum - 1) * limitNum, limitNum) :
         sorted \in newestFirst(SelectSeq(coll, LAMBDA d : routeMatches(d, q)))}

\* routes/templateRoutes.js GET /preview
previewLimit(raw) == Min(orDefault(parseInt(raw), PreviewDefaultLimit), PreviewMaxLimit)

previewTemplates(coll, r) ==
  {skipLimit(sorted, 0, previewLimit(r.limit)) :
     sorted \in sortedReads(SelectSeq(coll, LAMBDA d : d.status = active))}

\* the cache test with <= in place of <
cacheIsFreshInclusive(cache, clock) ==
  /\ cache.hasData
  /\ cache.lastUpdated # 0
  /\ clock - cache.lastUpdated <= cache.expiresIn

\* the cache test of getTemplates: data && lastUpdated && (Date.now() - lastUpdated) < expiresIn
\* (a null lastUpdated is 0: null and 0 are both falsy)
cacheIsFresh(cache, clock) ==
  /\ cache.hasData
  /\ cache.lastUpdated # 0
  /\ clock - cache.lastUpdated < cache.expiresIn

\* checkDatabaseSeed(): count === 0
checkDatabaseSeed(coll) == countDocuments(coll, buildTemplateQuery(Empty, Empty)) = 0

\* the records the external template source returns (a fixed fixture)
imageHost == <<"h", "t", "t", "p", "s", ":", "/", "/", "i", ".", "f", "/">>
externalMemes ==
  [i \in 1..NumExternal |->
     [id |-> i, name |-> <<"M", "e", "m", "e">>, url |-> Append(imageHost, "m"),
      width |-> 500, height |-> 400, box_count |-> 2]]

\* Math.floor(Math.random() * 1000): the extremes stand for the range
randomPopularity == {0, RandomPopularityRange - 1}

\* response.data.data.memes.map(meme => ({ templateId, name, url, width, height,
\* category: 'popular', boxCount, popularity })) as documents of the Template model:
\* templateId, url and boxCount are not schema paths; user, imageUrl and publicId
\* are not supplied; status takes its default
seedDocument(meme, pop) ==
  newTemplate(0, meme.name, Empty, Empty, meme.width, meme.height, popular, pop, pending, <<>>)

seedDocuments(memes, pops) == [i \in DOMAIN memes |-> seedDocument(memes[i], pops[i])]

\* ------------------------------------------------------------------------
\* JavaScript values of properties that may be missing
\* ------------------------------------------------------------------------
undefined == [kind |-> "undefined", num |-> 0, str |-> <<>>]
null == [kind |-> "null", num |-> 0, str |-> <<>>]
NaN == [kind |-> "NaN", num |-> 0, str |-> <<>>]
number(n) == [kind |-> "number", num |-> n, str |-> <<>>]
string(s) == [kind |-> "string", num |-> 0, str |-> s]

\* a + n with a number n: undefined + 1 and NaN + 1 are NaN, null + 1 is 1
plus(a, n) ==
  CASE a.kind = "number" -> number(a.num + n)
    [] a.kind = "null" -> number(n)
    [] OTHER -> NaN

\* if (value)
truthy(v) ==
  \/ v.kind = "number" /\ v.num # 0
  \/ v.kind = "string" /\ v.str # <<>>

\* JSON.stringify of a property value: NaN is written as null
json(v) == IF v.kind = "NaN" THEN null ELSE v

\* object.name: undefined when the object has no such property
property(object, name) == IF name \in DOMAIN object THEN object[name] ELSE undefined

\* array.indexOf(x), zero-based, -1 when absent
indexOf(array, x) ==
  IF \E i \in DOMAIN array : array[i] = x
  THEN (CHOOSE i \in DOMAIN array : array[i] = x /\ \A j \in 1..(i - 1) : array[j] # x) - 1
  ELSE 0 - 1

\* array.splice(index, 1)
splice(array, index) ==
  [i \in 1..(Len(array) - 1) |-> IF i <= index THEN array[i] ELSE array[i + 1]]

\* ------------------------------------------------------------------------
\* models/Meme.js
\* ------------------------------------------------------------------------
\* the paths of memeSchema
memeSchema == {"user", "template", "imageUrl", "texts", "likes", "createdAt"}

\* new Meme(fields): paths outside the schema are dropped (strict mode), likes
\* starts empty; a missing path reads as undefined
newMeme(fields) ==
  [path \in (DOMAIN fields \cap memeSchema) \cup {"likes"} |->
     IF path = "likes" THEN <<>> ELSE fields[path]]

\* the required validators of user, template and imageUrl
validateMeme(doc) ==
  /\ property(doc, "user").kind = "number"
  /\ property(doc, "template").kind = "number"
  /\ property(doc, "imageUrl").kind = "string" /\ property(doc, "imageUrl").str # <<>>

\* the stored document: the store assigns _id, createdAt takes its default, the
\* version key __v starts at 0
storedMeme(doc, id, at) ==
  [_id |-> id, user |-> doc.user.num, template |-> doc.template.num,
   imageUrl |-> doc.imageUrl.str, likes |-> doc.likes, createdAt |-> at, __v |-> 0]

\* Meme.findById(id): the matching documents (none or one)
findById(coll, id) == SelectSeq(coll, LAMBDA d : d._id = id)

\* meme.save() after likes.push(userId): the update { $push: { likes: userId },
\* $inc: { __v: 1 } } on the stored document, whatever its version
savePush(coll, doc, userId) ==
  [i \in DOMAIN coll |->
     IF coll[i]._id = doc._id
     THEN [coll[i] EXCEPT !.likes = Append(@, userId), !.__v = @ + 1]
     ELSE coll[i]]

\* meme.save() after likes.splice(index, 1): the update { $set: { likes: [...] },
\* $inc: { __v: 1 } } with the version read in its filter; it matches no
\* document when the stored version has moved on (VersionError)
saveSetMatches(coll, doc) == \E i \in DOMAIN coll : coll[i]._id = doc._id /\ coll[i].__v = doc.__v
saveSet(coll, doc) ==
  [i \in DOMAIN coll |->
     IF coll[i]._id = doc._id /\ coll[i].__v = doc.__v
     THEN [coll[i] EXCEPT !.likes = doc.likes, !.__v = @ + 1]
     ELSE coll[i]]

\* Meme.findByIdAndDelete(id)
findByIdAndDelete(coll, id) == SelectSeq(coll, LAMBDA d : d._id # id)

\* ------------------------------------------------------------------------
\* services/cloudinaryService.js
\* ------------------------------------------------------------------------
\* the names of module.exports
cloudinaryService == {"cloudinary", "uploadToCloudinary"}

\* what cloudinary.uploader.upload resolves to for the image of a meme
uploaderResult == [secure_url |-> Append(imageHost, "m"), public_id |-> <<"m">>]

\* uploadToCloudinary(base64Image, folder): return result.secure_url
uploadToCloudinary(result) == string(result.secure_url)

\* ------------------------------------------------------------------------
\* Inputs
\* ------------------------------------------------------------------------
Cat == <<"C", "a", "t">>
Doge == <<"D", "o", "g", "e">>
cat == <<"c", "a", "t">>

\* req.query of the listing requests the model issues
Requests ==
  {[page |-> Empty, limit |-> Empty, search |-> Empty, category |-> Empty],
   [page |-> <<"2", "x">>, limit |-> <<"1">>, search |-> Empty, category |-> Empty],
   [page |-> <<"x">>, limit |-> <<"1", "0", "1">>, search |-> cat, category |-> Empty],
   [page |-> <<"-", "1">>, limit |-> <<"-", "2">>, search |-> Empty, category |-> Empty]}

\* the requests of the calls that overlap
ConcurrentRequests ==
  {[page |-> Empty, limit |-> Empty, search |-> Empty, category |-> Empty],
   [page |-> Empty, limit |-> <<"1">>, search |-> cat, category |-> Empty]}

\* what an upload supplies: the form's name and category, the width the asset host reports
UploadInputs ==
  {[name |-> <<" ", "C", "a", "t">>, category |-> Animals, width |-> 500, tags |-> Empty],
   [name |-> Doge, category |-> popular, width |-> 500, tags |-> Empty],
   [name |-> Cat, category |-> Animals, width |-> 50, tags |-> Empty]}

\* the tags field of the upload form: absent; one tag; repeated tags with blanks
\* and an empty entry; ten tags; eleven tags; eleven times the same tag
TagInputs ==
  {Empty,
   <<"q">>,
   <<" ", "x", " ", ",", " ", "y", ",", "x", ",", ",", "y", " ">>,
   <<"a", ",", "b", ",", "c", ",", "d", ",", "e", ",", "f", ",", "g", ",", "h", ",", "i", ",", "j">>,
   <<"a", ",", "b", ",", "c", ",", "d", ",", "e", ",", "f", ",", "g", ",", "h", ",", "i", ",", "j", ",", "k">>,
   <<"z", ",", "z", ",", "z", ",", "z", ",", "z", ",", "z", ",", "z", ",", "z", ",", "z", ",", "z", ",", "z">>}

TagUploads == {[name |-> Cat, category |-> Animals, width |-> 500, tags |-> t] : t \in TagInputs}

\* a template approved in an earlier run of the server that nobody has favorited
newlyApproved ==
  stored(newTemplate(1, Cat, Append(imageHost, "c"), <<"c">>, 500, 400, Animals, 0, active, <<>>), 1, 0)

\* a template approved in an earlier run of the server
approvedTemplate ==
  stored(newTemplate(1, Doge, Append(imageHost, "d"), <<"d">>, 500, 400, Funny, 5, active, <<>>), 1, 0)

InitStores == {<<>>, <<approvedTemplate>>}

\* a collection with one template of each status, the active one first
moderatedCatalog ==
  [i \in 1..4 |->
     [approvedTemplate EXCEPT !._id = i, !.status = <<active, pending, rejected, archived>>[i]]]

\* a catalog of n templates uploaded and moderated in earlier runs of the
\* server: the names alternate, popularity runs through 0, 1, 2, every third
\* template is still pending, a template with a higher _id was created earlier
catalogOf(n) ==
  [i \in 1..n |->
     [stored(newTemplate(1, IF i % 2 = 1 THEN Cat ELSE Doge, Append(imageHost, "d"), <<"d">>,
                         500, 400, Funny, 0, IF i % 3 = 0 THEN pending ELSE active, <<>>),
             i, 0 - i)
      EXCEPT !.popularity = i % 3]]

\* three templates whose sort keys are equal
tiedCatalog ==
  [i \in 1..3 |-> [catalogOf(3)[i] EXCEPT !.popularity = 1, !.createdAt = 0]]

PageStores == {catalogOf(CatalogSize), tiedCatalog, <<approvedTemplate>>}

PageRequests ==
  {[page |-> <<"2">>, limit |-> <<"1", "0">>, search |-> Empty, category |-> Empty],
   [page |-> <<"3">>, limit |-> <<"1", "0">>, search |-> Empty, category |-> Empty],
   [page |-> <<"4">>, limit |-> <<"1", "0">>, search |-> Empty, category |-> Empty],
   [page |-> <<"2">>, limit |-> <<"2">>, search |-> cat, category |-> Empty],
   [page |-> <<"1">>, limit |-> <<"2">>, search |-> Empty, category |-> Empty],
   [page |-> <<"1">>, limit |-> <<"-", "2">>, search |-> Empty, category |-> Empty],
   [page |-> Empty, limit |-> Empty, search |-> Empty, category |-> Empty],
   [page |-> Empty, limit |-> Empty, search |-> Empty, category |-> Funny],
   [page |-> Empty, limit |-> Empty, search |-> Empty, category |-> toLowerCase(Funny)],
   [page |-> Empty, limit |-> Empty, search |-> <<"D", "O", "G">>, category |-> Empty],
   [page |-> Empty, limit |-> Empty, search |-> <<"u", "n">>, category |-> Empty]}

\* the clock's advances (ms), in turn: to one millisecond short of the time-to-live
\* after the previous instant, then one millisecond more
tickStep(k) == IF k % 2 = 0 THEN expiresIn - 1 ELSE 1

\* ------------------------------------------------------------------------
\* State
\* ------------------------------------------------------------------------
VARIABLES
  store,          \* the Template collection, in insertion order
  templateCache,  \* the controller's module-level cache
  now,            \* Date.now()
  ticks,          \* clock advances so far
  uploads,        \* templates the upload route has stored so far
  pc,             \* where each getTemplates call stands
  req,            \* req.query of each call
  loc,            \* the call's local variables
  resp            \* the response each call sent

catalog == <<store, templateCache, now, ticks, uploads, pc, req, loc, resp>>

noRequest == [page |-> Empty, limit |-> Empty, search |-> Empty, category |-> Empty]

\* A call's locals.  age, shouldSeed, fetchFailed, ranInsert and all record what
\* the call observed (the snapshot's age at arrival, -1 without a snapshot; the
\* seeder's outcome; the collection at the refresh read) for the properties below.
noLocals ==
  [age |-> 0 - 1, shouldSeed |-> FALSE, fetchFailed |-> FALSE, ranInsert |-> FALSE,
   haveFind |-> FALSE, haveCount |-> FALSE,
   templates |-> <<>>, total |-> 0, stamp |-> 0, data |-> <<>>, all |-> <<>>]

page(p) == queryPage(req[p].page)
limit(p) == queryLimit(req[p].limit)
skip(p) == querySkip(req[p].page, req[p].limit)
query(p) == buildTemplateQuery(req[p].search, req[p].category)

\* ------------------------------------------------------------------------
\* State of the meme and favorite routes
\* ------------------------------------------------------------------------
VARIABLES
  memes,          \* the Meme collection
  inserted,       \* memes stored so far (the next _id)
  users,          \* the User collection: favoriteTemplates and version of each user
  assets,         \* the calls the asset host has received, in order
  served,         \* route requests accepted so far
  rpc,            \* where each route handler stands
  rreq,           \* its request: route, req.user._id, the id in the path or body
  rloc,           \* its local variables
  rresp,          \* the response it sent
  log             \* the responses sent, in order

routes == <<memes, inserted, users, assets, served, rpc, rreq, rloc, rresp, log>>

noRouteRequest == [route |-> "", user |-> 0, id |-> 0, customImage |-> FALSE]

\* a handler's locals: the document it loaded and changed in memory (meme or
\* user), what it read before changing it, the image of a new meme
noRouteLocals ==
  [found |-> FALSE, doc |-> [_id |-> 0], index |-> 0 - 1, before |-> undefined,
   likesCount |-> undefined, processedImageUrl |-> undefined, publicId |-> null,
   favoriteTemplates |-> <<>>]

\* a response: the status, the property names of the JSON body (keys) and the
\* values of the properties the model follows
noRouteResponse ==
  [status |-> 0, keys |-> {}, success |-> FALSE, message |-> "", action |-> "",
   likesCount |-> undefined, favoriteTemplates |-> <<>>]

RoutesInit ==
  /\ memes = <<>>
  /\ inserted = 0
  /\ users = [u \in Users |-> [favoriteTemplates |-> <<>>, templateUploads |-> 0, __v |-> 0]]
  /\ assets = <<>>
  /\ served = 0
  /\ rpc = [p \in Procs |-> "idle"]
  /\ rreq = [p \in Procs |-> noRouteRequest]
  /\ rloc = [p \in Procs |-> noRouteLocals]
  /\ rresp = [p \in Procs |-> noRouteResponse]
  /\ log = <<>>

\* ------------------------------------------------------------------------
\* State of the rate limiters
\* ------------------------------------------------------------------------
VARIABLES
  limits          \* the limiters' store, the minutes gone by, the last answer

vars == <<catalog, routes, limits>>

\* no client has been counted; the store of the limiters opens a window for a
\* client at its first request ("client") or for all clients at fixed
\* intervals from the start ("store"), as the installed express-rate-limit does
noLimits(windows) ==
  [windows |-> windows,
   hits |-> [k \in LimitedRoutes \X Clients |-> [count |-> 0, resetTime |-> 0]],
   elapsed |-> 0,
   last |-> [route |-> "", client |-> 0, status |-> 0]]

\* the server has started: nothing is cached, no request is in flight
startedServer ==
  /\ templateCache = [lastUpdated |-> 0, hasData |-> FALSE, data |-> <<>>, expiresIn |-> expiresIn]
  /\ now = startTime
  /\ ticks = 0
  /\ uploads = 0
  /\ pc = [p \in Procs |-> "idle"]
  /\ req = [p \in Procs |-> noRequest]
  /\ loc = [p \in Procs |-> noLocals]
  /\ resp = [p \in Procs |-> noResponse]
  /\ RoutesInit

started == startedServer /\ limits = noLimits("client")

Init == store \in InitStores /\ started

\* the catch block of getTemplates
fail(p) ==
  /\ pc' = [pc EXCEPT ![p] = "done"]
  /\ resp' = [resp EXCEPT ![p] = failureResponse]

\* ------------------------------------------------------------------------
\* getTemplates, one action per step between two awaits
\* ------------------------------------------------------------------------
\* entry: parse the query, test the cache; a hit answers at once
getTemplates(p, r) ==
  /\ pc[p] = "idle"
  /\ req' = [req EXCEPT ![p] = r]
  /\ IF cacheIsFresh(templateCache, now)
     THEN /\ resp' = [resp EXCEPT ![p] =
                 paginateResults(templateCache.data, queryPage(r.page), queryLimit(r.limit))]
          /\ pc' = [pc EXCEPT ![p] = "done"]
     ELSE /\ pc' = [pc EXCEPT ![p] = "checkDatabaseSeed"]
          /\ resp' = resp
  /\ loc' = [loc EXCEPT ![p].age =
         IF templateCache.hasData THEN now - templateCache.lastUpdated ELSE 0 - 1]
  /\ UNCHANGED <<limits, routes, store, templateCache, now, ticks, uploads>>

\* const shouldSeed = await checkDatabaseSeed()
awaitCheckDatabaseSeed(p) ==
  /\ pc[p] = "checkDatabaseSeed"
  /\ LET shouldSeed == checkDatabaseSeed(store)
     IN  /\ loc' = [loc EXCEPT ![p].shouldSeed = shouldSeed]
         /\ pc' = [pc EXCEPT ![p] = IF shouldSeed THEN "axiosGet" ELSE "query"]
  /\ UNCHANGED <<limits, routes, store, templateCache, now, ticks, uploads, req, resp>>

\* the seeder's catch block logging the failure without rethrowing it
awaitAxiosGetSwallowed(p, ok) ==
  /\ pc[p] = "axiosGet"
  /\ pc' = [pc EXCEPT ![p] = IF ok THEN "insertMany" ELSE "query"]
  /\ loc' = [loc EXCEPT ![p].fetchFailed = ~ok]
  /\ UNCHANGED <<limits, routes, store, templateCache, now, ticks, uploads, req, resp>>

\* seedTemplatesFromImgFlip: the external fetch answers, fails or times out
awaitAxiosGet(p, ok) ==
  /\ pc[p] = "axiosGet"
  /\ IF ok
     THEN /\ pc' = [pc EXCEPT ![p] = "insertMany"]
          /\ loc' = loc
          /\ resp' = resp
     ELSE /\ loc' = [loc EXCEPT ![p].fetchFailed = TRUE]
          /\ fail(p)
  /\ UNCHANGED <<limits, routes, store, templateCache, now, ticks, uploads, req>>

\* seedTemplatesFromImgFlip: map the records and await Template.insertMany(templates)
awaitInsertMany(p, pops) ==
  /\ pc[p] = "insertMany"
  /\ LET templates == seedDocuments(externalMemes, pops)
     IN  /\ store' = insertMany(store, templates, now)
         /\ loc' = [loc EXCEPT ![p].ranInsert = TRUE]
         /\ IF insertManyOk(templates)
            THEN /\ pc' = [pc EXCEPT ![p] = "query"]
                 /\ resp' = resp
            ELSE fail(p)
  /\ UNCHANGED <<limits, routes, templateCache, now, ticks, uploads, req>>

\* after both reads of Promise.all: the cache literal takes Date.now() and issues
\* the refresh read
afterPromiseAll(p, l) ==
  IF l.haveFind /\ l.haveCount
  THEN /\ loc' = [loc EXCEPT ![p] = [l EXCEPT !.stamp = now]]
       /\ pc' = [pc EXCEPT ![p] = "refresh"]
  ELSE /\ loc' = [loc EXCEPT ![p] = l]
       /\ pc' = pc

\* Promise.all, first member: Template.find(query).select().sort().skip(skip).limit(limit).lean();
\* the store rejects a negative skip
awaitFind(p) ==
  /\ pc[p] = "query"
  /\ ~loc[p].haveFind
  /\ IF skip(p) < 0
     THEN /\ fail(p)
          /\ loc' = loc
     ELSE /\ \E sorted \in sortedReads(find(store, query(p))) :
               afterPromiseAll(p, [loc[p] EXCEPT
                 !.haveFind = TRUE,
                 !.templates = selectAll(skipLimit(sorted, skip(p), limit(p)))])
          /\ resp' = resp
  /\ UNCHANGED <<limits, routes, store, templateCache, now, ticks, uploads, req>>

\* Promise.all, second member: Template.countDocuments(query)
awaitCountDocuments(p) ==
  /\ pc[p] = "query"
  /\ ~loc[p].haveCount
  /\ afterPromiseAll(p, [loc[p] EXCEPT
       !.haveCount = TRUE, !.total = countDocuments(store, query(p))])
  /\ UNCHANGED <<limits, routes, store, templateCache, now, ticks, uploads, req, resp>>

\* data: await Template.find(query).lean()
awaitRefreshFind(p) ==
  /\ pc[p] = "refresh"
  /\ loc' = [loc EXCEPT ![p].data = find(store, query(p)), ![p].all = store]
  /\ pc' = [pc EXCEPT ![p] = "respond"]
  /\ UNCHANGED <<limits, routes, store, templateCache, now, ticks, uploads, req, resp>>

\* templateCache = {...}; res.json({...})
respond(p) ==
  /\ pc[p] = "respond"
  /\ templateCache' = [lastUpdated |-> loc[p].stamp, hasData |-> TRUE,
                       data |-> loc[p].data, expiresIn |-> expiresIn]
  /\ resp' = [resp EXCEPT ![p] =
        storeResponse(loc[p].templates, loc[p].total, page(p), limit(p))]
  /\ pc' = [pc EXCEPT ![p] = "done"]
  /\ UNCHANGED <<limits, routes, store, now, ticks, uploads, req, loc>>

\* the handler has returned; the slot takes the next request
return(p) ==
  /\ pc[p] = "done"
  /\ pc' = [pc EXCEPT ![p] = "idle"]
  /\ req' = [req EXCEPT ![p] = noRequest]
  /\ loc' = [loc EXCEPT ![p] = noLocals]
  /\ resp' = [resp EXCEPT ![p] = noResponse]
  /\ UNCHANGED <<limits, routes, store, templateCache, now, ticks, uploads>>

\* ------------------------------------------------------------------------
\* POST /api/templates: a user uploads a template
\* ------------------------------------------------------------------------
\* new Template({...}) and template.save(): the document is stored when it passes
\* the schema validation, with status 'pending' and the default popularity 0
processTags(raw) ==
  IF raw = Empty THEN <<>>
  ELSE SelectSeq([i \in DOMAIN split(raw, ",") |-> trim(split(raw, ",")[i])],
                 LAMBDA t : Len(t) > 0)

uploadTemplateEvicting(u, in) ==
  /\ LET template == newTemplate(u, in.name, Append(imageHost, "u"), <<"u">>,
                                 in.width, in.width, in.category, 0, pending,
                                 processTags(in.tags))
     IN  /\ store' = IF validateSync(template)
                     THEN Append(store, stored(preSave(template), Len(store) + 1, now))
                     ELSE store
         /\ uploads' = IF validateSync(template) THEN uploads + 1 ELSE uploads
  /\ templateCache' = [templateCache EXCEPT !.hasData = FALSE, !.data = <<>>]
  /\ UNCHANGED <<limits, routes, now, ticks, pc, req, loc, resp>>

uploadTemplate(u, in) ==
  /\ LET template == newTemplate(u, in.name, Append(imageHost, "u"), <<"u">>,
                                 in.width, in.width, in.category, 0, pending,
                                 processTags(in.tags))
     IN  /\ store' = IF validateSync(template)
                     THEN Append(store, stored(preSave(template), Len(store) + 1, now))
                     ELSE store
         /\ uploads' = IF validateSync(template) THEN uploads + 1 ELSE uploads
  /\ UNCHANGED <<limits, routes, templateCache, now, ticks, pc, req, loc, resp>>

\* time passes
tick ==
  /\ ticks < MaxTicks
  /\ now' = now + tickStep(ticks)
  /\ ticks' = ticks + 1
  /\ UNCHANGED <<limits, routes, store, templateCache, uploads, pc, req, loc, resp>>

\* ------------------------------------------------------------------------
\* routes/memes.js, one action per step between two awaits
\* ------------------------------------------------------------------------
\* res.status(status).json(body): the handler is done; the response is logged
\* with the request and with the likesCount the handler had read
send(p, response) ==
  /\ rresp' = [rresp EXCEPT ![p] = response]
  /\ rpc' = [rpc EXCEPT ![p] = "done"]
  /\ log' = Append(log, [route |-> rreq[p].route, user |-> rreq[p].user, id |-> rreq[p].id,
                         status |-> response.status, action |-> response.action,
                         before |-> rloc[p].before, likesCount |-> response.likesCount])

failure(status, message) ==
  [noRouteResponse EXCEPT !.status = status, !.message = message,
                          !.keys = {"success", "message"}]

\* an authenticated request reaches a handler
accept(p, route, u, id, customImage) ==
  /\ rpc[p] = "idle"
  /\ served < MaxRequests
  /\ served' = served + 1
  /\ rreq' = [rreq EXCEPT ![p] =
        [route |-> route, user |-> u, id |-> id, customImage |-> customImage]]
  /\ rpc' = [rpc EXCEPT ![p] = route]

\* POST /:id/like
likeMeme(p, u, id) ==
  /\ accept(p, "like", u, id, FALSE)
  /\ UNCHANGED <<limits, catalog, memes, inserted, users, assets, rloc, rresp, log>>

\* const meme = await Meme.findById(req.params.id), then the change of the
\* document in memory: likes.push / likes.splice and likesCount += 1 / -= 1
awaitLikeFindById(p) ==
  /\ rpc[p] = "like"
  /\ LET found == findById(memes, rreq[p].id)
         meme == found[1]
         likeIndex == indexOf(meme.likes, rreq[p].user)
         before == property(meme, "likesCount")
     IN  IF found = <<>>
         THEN /\ rloc' = rloc
              /\ send(p, failure(404, "Meme not found"))
         ELSE /\ rloc' = [rloc EXCEPT ![p] =
                   [@ EXCEPT !.found = TRUE, !.index = likeIndex, !.before = before,
                      !.doc = [meme EXCEPT !.likes =
                                 IF likeIndex = 0 - 1 THEN Append(@, rreq[p].user)
                                 ELSE splice(@, likeIndex)],
                      !.likesCount = plus(before, IF likeIndex = 0 - 1 THEN 1 ELSE 0 - 1)]]
              /\ rpc' = [rpc EXCEPT ![p] = "meme.save"]
              /\ UNCHANGED <<rresp, log>>
  /\ UNCHANGED <<limits, catalog, memes, inserted, users, assets, served, rreq>>

\* await meme.save() and the response
awaitLikeSave(p) ==
  /\ rpc[p] = "meme.save"
  /\ LET meme == rloc[p].doc
         liked == rloc[p].index = 0 - 1
         saved == IF liked THEN findById(memes, meme._id) # <<>> ELSE saveSetMatches(memes, meme)
     IN  /\ memes' = IF ~saved THEN memes
                     ELSE IF liked THEN savePush(memes, meme, rreq[p].user)
                     ELSE saveSet(memes, meme)
         /\ send(p, IF saved
                    THEN [noRouteResponse EXCEPT !.status = 200, !.success = TRUE,
                            !.keys = {"success", "action", "likesCount"},
                            !.action = IF liked THEN "liked" ELSE "unliked",
                            !.likesCount = json(rloc[p].likesCount)]
                    ELSE failure(500, "Failed to process like"))
  /\ UNCHANGED <<limits, catalog, inserted, users, assets, served, rreq, rloc>>

\* DELETE /:id
deleteMeme(p, u, id) ==
  /\ accept(p, "delete", u, id, FALSE)
  /\ UNCHANGED <<limits, catalog, memes, inserted, users, assets, rloc, rresp, log>>

isAnyUser(meme, userId) == userId \in Users

\* meme.user.toString() === req.user._id.toString()
isOwner(meme, userId) == meme.user = userId

\* const meme = await Meme.findById(req.params.id), the ownership test, and
\* await deleteFromCloudinary(meme.publicId) when meme.publicId is truthy: the
\* call throws unless cloudinaryService exports that name
awaitDeleteFindById(p) ==
  /\ rpc[p] = "delete"
  /\ LET found == findById(memes, rreq[p].id)
         meme == found[1]
         publicId == property(meme, "publicId")
     IN  IF found = <<>>
         THEN /\ send(p, failure(404, "Meme not found"))
              /\ assets' = assets
         ELSE IF ~isOwner(meme, rreq[p].user)
         THEN /\ send(p, failure(403, "Not authorized to delete this meme"))
              /\ assets' = assets
         ELSE IF truthy(publicId) /\ "deleteFromCloudinary" \notin cloudinaryService
         THEN /\ send(p, failure(500, "Failed to delete meme"))
              /\ assets' = assets
         ELSE /\ assets' = IF truthy(publicId)
                           THEN Append(assets, [call |-> "destroy", publicId |-> publicId.str])
                           ELSE assets
              /\ rpc' = [rpc EXCEPT ![p] = "Meme.findByIdAndDelete"]
              /\ UNCHANGED <<rresp, log>>
  /\ UNCHANGED <<limits, catalog, memes, inserted, users, served, rreq, rloc>>

\* await Meme.findByIdAndDelete(req.params.id) and the response
awaitFindByIdAndDelete(p) ==
  /\ rpc[p] = "Meme.findByIdAndDelete"
  /\ memes' = findByIdAndDelete(memes, rreq[p].id)
  /\ send(p, [noRouteResponse EXCEPT !.status = 200, !.success = TRUE,
                !.keys = {"success", "message"},
                !.message = "Meme deleted successfully"])
  /\ UNCHANGED <<limits, catalog, inserted, users, assets, served, rreq, rloc>>

\* POST /: create a meme from a template, with or without a custom image
createMeme(p, u, templateId, customImage) ==
  /\ accept(p, "create", u, templateId, customImage)
  /\ UNCHANGED <<limits, catalog, memes, inserted, users, assets, rloc, rresp, log>>

\* const template = await Template.findById(templateId)
awaitCreateFindById(p) ==
  /\ rpc[p] = "create"
  /\ LET found == findById(store, rreq[p].id)
     IN  IF found = <<>>
         THEN /\ send(p, failure(404, "Template not found"))
              /\ rloc' = rloc
         ELSE /\ rloc' = [rloc EXCEPT ![p].processedImageUrl = string(found[1].imageUrl),
                                      ![p].publicId = null]
              /\ rpc' = [rpc EXCEPT ![p] =
                    IF rreq[p].customImage THEN "uploadToCloudinary" ELSE "new Meme.save"]
              /\ UNCHANGED <<rresp, log>>
  /\ UNCHANGED <<limits, catalog, memes, inserted, users, assets, served, rreq>>

\* const uploadResult = await uploadToCloudinary(customImage, 'memes'): the
\* service returns result.secure_url, a string, or throws; the handler reads
\* uploadResult.url and uploadResult.publicId
awaitUploadToCloudinary(p, ok) ==
  /\ rpc[p] = "uploadToCloudinary"
  /\ IF ok
     THEN LET uploadResult == uploadToCloudinary(uploaderResult)
          IN  /\ assets' = Append(assets, [call |-> "upload", publicId |-> uploaderResult.public_id])
              /\ rloc' = [rloc EXCEPT ![p].processedImageUrl = property(uploadResult, "url"),
                                      ![p].publicId = property(uploadResult, "publicId")]
              /\ rpc' = [rpc EXCEPT ![p] = "new Meme.save"]
              /\ UNCHANGED <<rresp, log>>
     ELSE /\ send(p, failure(500, "Failed to create meme"))
          /\ UNCHANGED <<assets, rloc>>
  /\ UNCHANGED <<limits, catalog, memes, inserted, users, served, rreq>>

\* const meme = new Meme({...}); await meme.save()
awaitCreateSave(p) ==
  /\ rpc[p] = "new Meme.save"
  /\ LET meme == newMeme([user |-> number(rreq[p].user), template |-> number(rreq[p].id),
                          texts |-> <<>>, styles |-> null,
                          imageUrl |-> rloc[p].processedImageUrl,
                          publicId |-> rloc[p].publicId,
                          originalTemplate |-> number(rreq[p].id), dimensions |-> null])
     IN  IF validateMeme(meme)
         THEN /\ memes' = Append(memes, storedMeme(meme, inserted + 1, now))
              /\ inserted' = inserted + 1
              /\ rpc' = [rpc EXCEPT ![p] = "Template.findByIdAndUpdate"]
              /\ UNCHANGED <<rresp, log>>
         ELSE /\ send(p, failure(500, "Failed to create meme"))
              /\ UNCHANGED <<memes, inserted>>
  /\ UNCHANGED <<limits, catalog, users, assets, served, rreq, rloc>>

\* await Template.findByIdAndUpdate(templateId, { $inc: { usageCount: 1 } }) and
\* the 201 response
awaitIncrementUsage(p) ==
  /\ rpc[p] = "Template.findByIdAndUpdate"
  /\ store' = [i \in DOMAIN store |->
        IF store[i]._id = rreq[p].id THEN [store[i] EXCEPT !.usageCount = @ + 1] ELSE store[i]]
  /\ send(p, [noRouteResponse EXCEPT !.status = 201, !.success = TRUE,
                !.keys = {"success", "meme"}])
  /\ UNCHANGED <<limits, templateCache, now, ticks, uploads, pc, req, loc, resp>>
  /\ UNCHANGED <<memes, inserted, users, assets, served, rreq, rloc>>

\* await Template.findByIdAndUpdate(templateId, { $inc: { usageCount: 1 } })
\* rejects (the store is unreachable): the catch block answers 500; the meme
\* saved the step before stays
awaitIncrementUsageRejected(p) ==
  /\ rpc[p] = "Template.findByIdAndUpdate"
  /\ send(p, failure(500, "Failed to create meme"))
  /\ UNCHANGED <<limits, catalog, memes, inserted, users, assets, served, rreq, rloc>>

\* the handler has returned; the slot takes the next request
routeReturn(p) ==
  /\ rpc[p] = "done"
  /\ rpc' = [rpc EXCEPT ![p] = "idle"]
  /\ rreq' = [rreq EXCEPT ![p] = noRouteRequest]
  /\ rloc' = [rloc EXCEPT ![p] = noRouteLocals]
  /\ rresp' = [rresp EXCEPT ![p] = noRouteResponse]
  /\ UNCHANGED <<limits, catalog, memes, inserted, users, assets, served, log>>

\* ------------------------------------------------------------------------
\* routes/templateRoutes.js, POST /:id/favorite, one action per step between
\* two awaits
\* ------------------------------------------------------------------------
favoriteTemplate(p, u, id) ==
  /\ accept(p, "favorite", u, id, FALSE)
  /\ UNCHANGED <<limits, catalog, memes, inserted, users, assets, rloc, rresp, log>>

existsWithAnyStatus(coll, id) == \E i \in DOMAIN coll : coll[i]._id = id

\* Template.exists({ _id: templateId, status: 'active' })
existsActive(coll, id) ==
  \E i \in DOMAIN coll : coll[i]._id = id /\ coll[i].status = active

\* const templateExists = await Template.exists({ _id: templateId, status: 'active' })
awaitExists(p) ==
  /\ rpc[p] = "favorite"
  /\ IF existsActive(store, rreq[p].id)
     THEN /\ rpc' = [rpc EXCEPT ![p] = "User.findById"]
          /\ UNCHANGED <<rresp, log>>
     ELSE send(p, failure(404, "Template not found or not available"))
  /\ UNCHANGED <<limits, catalog, memes, inserted, users, assets, served, rreq, rloc>>

\* const user = await User.findById(req.user._id), then the change of the
\* document in memory: favoriteTemplates.push / favoriteTemplates.splice
awaitUserFindById(p) ==
  /\ rpc[p] = "User.findById"
  /\ LET user == users[rreq[p].user]
         index == indexOf(user.favoriteTemplates, rreq[p].id)
     IN  rloc' = [rloc EXCEPT ![p] =
           [@ EXCEPT !.found = TRUE, !.index = index,
              !.doc = [user EXCEPT !.favoriteTemplates =
                         IF index = 0 - 1 THEN Append(@, rreq[p].id) ELSE splice(@, index)]]]
  /\ rpc' = [rpc EXCEPT ![p] = "Template.findByIdAndUpdate.popularity"]
  /\ UNCHANGED <<limits, catalog, memes, inserted, users, assets, served, rreq, rresp, log>>

\* the increment written in both branches of the toggle
incPopularityUp(coll, id, delta) ==
  [i \in DOMAIN coll |->
     IF coll[i]._id = id THEN [coll[i] EXCEPT !.popularity = @ + 1] ELSE coll[i]]

setPopularity(coll, id, delta) ==
  [i \in DOMAIN coll |->
     IF coll[i]._id = id THEN [coll[i] EXCEPT !.popularity = delta] ELSE coll[i]]

\* Template.findByIdAndUpdate(templateId, { $inc: { popularity: delta } }): the
\* store adds delta to the stored value; update validators are off
incPopularity(coll, id, delta) ==
  [i \in DOMAIN coll |->
     IF coll[i]._id = id THEN [coll[i] EXCEPT !.popularity = @ + delta] ELSE coll[i]]

\* await Template.findByIdAndUpdate(templateId, { $inc: { popularity: 1 or -1 } })
awaitIncPopularity(p) ==
  /\ rpc[p] = "Template.findByIdAndUpdate.popularity"
  /\ store' = incPopularity(store, rreq[p].id, IF rloc[p].index = 0 - 1 THEN 1 ELSE 0 - 1)
  /\ rpc' = [rpc EXCEPT ![p] = "user.save"]
  /\ UNCHANGED <<limits, templateCache, now, ticks, uploads, pc, req, loc, resp>>
  /\ UNCHANGED <<memes, inserted, users, assets, served, rreq, rloc, rresp, log>>

\* await user.save() and the response: a pushed id is sent as $push, a spliced
\* array as $set with the version read in the filter (VersionError when the
\* stored version has moved on)
awaitUserSave(p) ==
  /\ rpc[p] = "user.save"
  /\ LET u == rreq[p].user
         user == rloc[p].doc
         added == rloc[p].index = 0 - 1
         saved == added \/ users[u].__v = user.__v
     IN  /\ users' = IF ~saved THEN users
                     ELSE [users EXCEPT ![u] =
                             [@ EXCEPT !.favoriteTemplates =
                                         IF added THEN Append(users[u].favoriteTemplates, rreq[p].id)
                                         ELSE user.favoriteTemplates,
                                       !.__v = users[u].__v + 1]]
         /\ send(p, IF saved
                    THEN [noRouteResponse EXCEPT !.status = 200, !.success = TRUE,
                            !.keys = {"success", "action", "favoriteTemplates"},
                            !.action = IF added THEN "added" ELSE "removed",
                            !.favoriteTemplates = user.favoriteTemplates]
                    ELSE failure(500, "Server error while toggling favorite"))
  /\ UNCHANGED <<limits, catalog, memes, inserted, assets, served, rreq, rloc>>

\* ------------------------------------------------------------------------
\* routes/templateRoutes.js, POST /: the upload handler, one action per step
\* between two awaits, for a request that carries a readable image file
\* ------------------------------------------------------------------------
\* the names the catch block of the handler can read: its parameter, the
\* handler's parameters and the module's bindings; 'let result' is declared
\* inside the try block
uploadCatchScope ==
  {"err", "req", "res", "cloudinary", "logActivity", "Template", "User", "fs", "console", "process"}

\* what cloudinary.uploader.upload resolves to for the image of a template
templateUploaderResult(in) ==
  [secure_url |-> Append(imageHost, "u"), public_id |-> <<"u">>,
   width |-> in.width, height |-> in.width]

postTemplate(p, u, in) ==
  /\ rpc[p] = "idle"
  /\ served < MaxRequests
  /\ served' = served + 1
  /\ rreq' = [rreq EXCEPT ![p] =
        [route |-> "upload", user |-> u, id |-> 0, customImage |-> FALSE, body |-> in]]
  /\ rpc' = [rpc EXCEPT ![p] = "cloudinary.uploader.upload"]
  /\ UNCHANGED <<limits, catalog, memes, inserted, users, assets, rloc, rresp, log>>

\* result = await cloudinary.uploader.upload(req.file.path, {...}) in its own
\* try block, whose catch answers 500
awaitUploaderUpload(p, ok) ==
  /\ rpc[p] = "cloudinary.uploader.upload"
  /\ IF ok
     THEN LET result == templateUploaderResult(rreq[p].body)
          IN  /\ assets' = Append(assets, [call |-> "upload", publicId |-> result.public_id])
              /\ rloc' = [rloc EXCEPT ![p].publicId = string(result.public_id)]
              /\ rpc' = [rpc EXCEPT ![p] = "template.save"]
              /\ UNCHANGED <<rresp, log>>
     ELSE /\ send(p, failure(500, "Failed to process image upload"))
          /\ UNCHANGED <<assets, rloc>>
  /\ UNCHANGED <<limits, catalog, memes, inserted, users, served, rreq>>

\* the catch block of the handler: it reads result?.public_id, and reading a
\* name that is not in scope throws a ReferenceError out of the handler before
\* the asset is destroyed and before any response is sent
uploadCatch(p) ==
  IF "result" \in uploadCatchScope
  THEN /\ assets' = IF truthy(rloc[p].publicId)
                    THEN Append(assets, [call |-> "destroy", publicId |-> rloc[p].publicId.str])
                    ELSE assets
       /\ send(p, failure(500, "Server error during upload"))
  ELSE /\ assets' = assets
       /\ rpc' = [rpc EXCEPT ![p] = "rejected"]
       /\ UNCHANGED <<rresp, log>>

\* const template = new Template({...}); await template.save(): the document
\* fails validation, or the store fails, or it is stored
awaitTemplateSave(p, ok) ==
  /\ rpc[p] = "template.save"
  /\ LET in == rreq[p].body
         result == templateUploaderResult(in)
         template == newTemplate(rreq[p].user, trim(in.name), result.secure_url, result.public_id,
                                 result.width, result.height, in.category, 0, pending,
                                 processTags(in.tags))
     IN  IF ok /\ validateSync(template)
         THEN /\ store' = Append(store, stored(preSave(template), Len(store) + 1, now))
              /\ uploads' = uploads + 1
              /\ rpc' = [rpc EXCEPT ![p] = "User.findByIdAndUpdate"]
              /\ UNCHANGED <<assets, rresp, log>>
         ELSE /\ uploadCatch(p)
              /\ UNCHANGED <<store, uploads>>
  /\ UNCHANGED <<limits, templateCache, now, ticks, pc, req, loc, resp>>
  /\ UNCHANGED <<memes, inserted, users, served, rreq, rloc>>

\* await User.findByIdAndUpdate(req.user._id, { $inc: { templateUploads: 1 } })
\* and the 201 response
awaitIncrementUploads(p, ok) ==
  /\ rpc[p] = "User.findByIdAndUpdate"
  /\ IF ok
     THEN /\ users' = [users EXCEPT ![rreq[p].user].templateUploads = @ + 1]
          /\ send(p, [noRouteResponse EXCEPT !.status = 201, !.success = TRUE,
                        !.keys = {"success", "template"}])
          /\ assets' = assets
     ELSE /\ uploadCatch(p)
          /\ users' = users
  /\ UNCHANGED <<limits, catalog, memes, inserted, served, rreq, rloc>>

\* ------------------------------------------------------------------------
\* middleware/rateLimiter.js in front of a route
\* ------------------------------------------------------------------------
\* a request of client c reaches the limiter of a route: the store opens a new
\* window when the client's window has run out, counts the request, and the
\* request passes (status 0 here) unless the count exceeds max: then the
\* handler of the limiter answers 429
limited(route, c) ==
  LET limiter == limiterOf[route]
      hit == limits.hits[<<route, c>>]
      expired == hit.count = 0 \/ hit.resetTime <= now
      counted == IF expired
                 THEN [count |-> 1,
                       resetTime |-> IF limits.windows = "client"
                                     THEN now + limiter.windowMs
                                     ELSE startTime + ((now - startTime) \div limiter.windowMs + 1)
                                                        * limiter.windowMs]
                 ELSE [hit EXCEPT !.count = @ + 1]
  IN  /\ counted.count <= limiter.max + MaxOver
      /\ limits' = [limits EXCEPT
            !.hits[<<route, c>>] = counted,
            !.last = [route |-> route, client |-> c,
                      status |-> IF counted.count > limiter.max THEN 429 ELSE 0]]
      /\ UNCHANGED <<catalog, routes>>

\* a minute or a whole window of the limiters goes by
elapse(minutes) ==
  /\ limits.elapsed < MaxElapses
  /\ now' = now + minutes * OneMinute
  /\ limits' = [limits EXCEPT !.elapsed = @ + 1]
  /\ UNCHANGED <<routes, store, templateCache, ticks, uploads, pc, req, loc, resp>>

\* ------------------------------------------------------------------------
\* controllers/authController.js: registerUser, one action per step between
\* two awaits; an account is known by its email, the email of user u being u
\* ------------------------------------------------------------------------
\* res.status(400).json({ status: 'fail', message })
registerFailure(message) ==
  [noRouteResponse EXCEPT !.status = 400, !.keys = {"status", "message"}, !.message = message]

registerUser(p, email) ==
  /\ accept(p, "register", 0, email, FALSE)
  /\ UNCHANGED <<limits, catalog, memes, inserted, users, assets, rloc, rresp, log>>

\* const existingUser = await User.findOne({ email })
awaitUserFindOne(p, ok) ==
  /\ rpc[p] = "register"
  /\ IF ~ok
     THEN send(p, registerFailure("Registration failed"))
     ELSE IF rreq[p].id \in DOMAIN users
     THEN send(p, registerFailure("Email already in use"))
     ELSE /\ rpc' = [rpc EXCEPT ![p] = "User.create"]
          /\ UNCHANGED <<rresp, log>>
  /\ UNCHANGED <<limits, catalog, memes, inserted, users, assets, served, rreq, rloc>>

\* const newUser = await User.create({...}) and the 201 response; the store
\* rejects an email that was registered meanwhile
awaitUserCreate(p, ok) ==
  /\ rpc[p] = "User.create"
  /\ IF ok /\ rreq[p].id \notin DOMAIN users
     THEN /\ users' = [u \in DOMAIN users \cup {rreq[p].id} |->
                         IF u \in DOMAIN users THEN users[u]
                         ELSE [favoriteTemplates |-> <<>>, templateUploads |-> 0, __v |-> 0]]
          /\ send(p, [noRouteResponse EXCEPT !.status = 201,
                        !.keys = {"status", "token", "data"}])
     ELSE /\ users' = users
          /\ send(p, registerFailure("Registration failed"))
  /\ UNCHANGED <<limits, catalog, memes, inserted, assets, served, rreq, rloc>>

\* the steps of the calls in flight
continue ==
  \/ \E p \in Procs : awaitCheckDatabaseSeed(p)
  \/ \E p \in Procs, ok \in BOOLEAN : awaitAxiosGet(p, ok)
  \/ \E p \in Procs, pops \in [1..NumExternal -> randomPopularity] : awaitInsertMany(p, pops)
  \/ \E p \in Procs : awaitFind(p)
  \/ \E p \in Procs : awaitCountDocuments(p)
  \/ \E p \in Procs : awaitRefreshFind(p)
  \/ \E p \in Procs : respond(p)
  \/ \E p \in Procs : return(p)

environment ==
  \/ \E in \in UploadInputs : uploads < MaxStore /\ uploadTemplate(1, in)
  \/ tick

inFlight(p) == pc[p] \notin {"idle", "done"}

\* requests arrive at any time: calls overlap
Next ==
  \/ \E p \in Procs, r \in ConcurrentRequests : getTemplates(p, r)
  \/ continue
  \/ environment

Spec == Init /\ [][Next]_vars

\* a request arrives only when no call is in flight: calls run one after another
NextSeq ==
  \/ \E p \in Procs, r \in Requests :
       /\ \A q \in Procs : ~inFlight(q)
       /\ getTemplates(p, r)
  \/ continue
  \/ environment

SpecSeq == Init /\ [][NextSeq]_vars

\* ------------------------------------------------------------------------
\* Listing a catalog that is already filled, one call after another
\* ------------------------------------------------------------------------
InitPages == store \in PageStores /\ started

NextPages ==
  \/ \E p \in Procs, r \in PageRequests :
       /\ \A q \in Procs : ~inFlight(q)
       /\ getTemplates(p, r)
  \/ \E p \in Procs : awaitCheckDatabaseSeed(p)
  \/ \E p \in Procs : awaitFind(p)
  \/ \E p \in Procs : awaitCountDocuments(p)
  \/ \E p \in Procs : awaitRefreshFind(p)
  \/ \E p \in Procs : respond(p)
  \/ \E p \in Procs : return(p)
  \/ tick

SpecPages == InitPages /\ [][NextPages]_vars

\* ------------------------------------------------------------------------
\* The upload route on its own
\* ------------------------------------------------------------------------
NextUploads == \E in \in TagUploads : uploads < MaxUploads /\ uploadTemplate(1, in)

SpecUploads == Init /\ [][NextUploads]_vars

\* ------------------------------------------------------------------------
\* The meme routes
\* ------------------------------------------------------------------------
memeRequest(p) ==
  \/ \E u \in Users, customImage \in BOOLEAN : createMeme(p, u, 1, customImage)
  \/ \E u \in Users : likeMeme(p, u, 1)
  \/ \E u \in Users : deleteMeme(p, u, 1)

memeSteps ==
  \/ \E p \in Procs : awaitCreateFindById(p)
  \/ \E p \in Procs, ok \in BOOLEAN : awaitUploadToCloudinary(p, ok)
  \/ \E p \in Procs : awaitCreateSave(p)
  \/ \E p \in Procs : awaitIncrementUsage(p)
  \/ \E p \in Procs : awaitLikeFindById(p)
  \/ \E p \in Procs : awaitLikeSave(p)
  \/ \E p \in Procs : awaitDeleteFindById(p)
  \/ \E p \in Procs : awaitFindByIdAndDelete(p)
  \/ \E p \in Procs : routeReturn(p)

handling(p) == rpc[p] \notin {"idle", "done"}

\* requests arrive at any time: handlers overlap
NextMemes ==
  \/ \E p \in Procs : memeRequest(p)
  \/ memeSteps

SpecMemes == Init /\ [][NextMemes]_vars

\* a request arrives only when no handler is running
NextMemesSeq ==
  \/ \E p \in Procs : (\A q \in Procs : ~handling(q)) /\ memeRequest(p)
  \/ memeSteps

SpecMemesSeq == Init /\ [][NextMemesSeq]_vars

\* ------------------------------------------------------------------------
\* Meme creation, with a store that may fail at the usage update
\* ------------------------------------------------------------------------
NextCreate ==
  \/ \E p \in Procs, u \in Users, customImage \in BOOLEAN : createMeme(p, u, 1, customImage)
  \/ \E p \in Procs : awaitCreateFindById(p)
  \/ \E p \in Procs, ok \in BOOLEAN : awaitUploadToCloudinary(p, ok)
  \/ \E p \in Procs : awaitCreateSave(p)
  \/ \E p \in Procs : awaitIncrementUsage(p)
  \/ \E p \in Procs : awaitIncrementUsageRejected(p)
  \/ \E p \in Procs : routeReturn(p)

SpecCreate == Init /\ [][NextCreate]_vars

\* ------------------------------------------------------------------------
\* The favorite toggle
\* ------------------------------------------------------------------------
favoriteSteps ==
  \/ \E p \in Procs : awaitExists(p)
  \/ \E p \in Procs : awaitUserFindById(p)
  \/ \E p \in Procs : awaitIncPopularity(p)
  \/ \E p \in Procs : awaitUserSave(p)
  \/ \E p \in Procs : routeReturn(p)

InitFavorites == store \in {<<newlyApproved>>, <<approvedTemplate>>} /\ started

NextFavorites ==
  \/ \E p \in Procs, u \in Users : favoriteTemplate(p, u, 1)
  \/ favoriteSteps

SpecFavorites == InitFavorites /\ [][NextFavorites]_vars

NextFavoritesSeq ==
  \/ \E p \in Procs, u \in Users : (\A q \in Procs : ~handling(q)) /\ favoriteTemplate(p, u, 1)
  \/ favoriteSteps

SpecFavoritesSeq == InitFavorites /\ [][NextFavoritesSeq]_vars

\* ------------------------------------------------------------------------
\* Favorite requests for templates of every status and for an id that names
\* no template
\* ------------------------------------------------------------------------
FavoriteTargets == 1..(Len(moderatedCatalog) + 1)

InitFavoriteTargets == store = moderatedCatalog /\ started

NextFavoriteTargets ==
  \/ \E p \in Procs, u \in Users, id \in FavoriteTargets : favoriteTemplate(p, u, id)
  \/ favoriteSteps

SpecFavoriteTargets == InitFavoriteTargets /\ [][NextFavoriteTargets]_vars

\* ------------------------------------------------------------------------
\* The upload handler with the failures of the asset host and of the store
\* ------------------------------------------------------------------------
uploadSteps ==
  \/ \E p \in Procs, ok \in BOOLEAN : awaitUploaderUpload(p, ok)
  \/ \E p \in Procs, ok \in BOOLEAN : awaitTemplateSave(p, ok)
  \/ \E p \in Procs, ok \in BOOLEAN : awaitIncrementUploads(p, ok)

NextUploadRoute ==
  \/ \E p \in Procs, u \in Users, in \in UploadInputs : postTemplate(p, u, in)
  \/ uploadSteps
  \/ \E p \in Procs : routeReturn(p)

SpecUploadRoute == Init /\ [][NextUploadRoute]_vars

\* ------------------------------------------------------------------------
\* Template, meme and auth handlers with the failures of the asset host and of
\* the store
\* ------------------------------------------------------------------------
\* the email of a registered user and one that is not registered
RegisterEmails == {1, 3}

NextFailures ==
  \/ \E p \in Procs, in \in UploadInputs : postTemplate(p, 1, in)
  \/ \E p \in Procs, customImage \in BOOLEAN : createMeme(p, 1, 1, customImage)
  \/ \E p \in Procs, email \in RegisterEmails : registerUser(p, email)
  \/ uploadSteps
  \/ \E p \in Procs : awaitCreateFindById(p)
  \/ \E p \in Procs, ok \in BOOLEAN : awaitUploadToCloudinary(p, ok)
  \/ \E p \in Procs : awaitCreateSave(p)
  \/ \E p \in Procs : awaitIncrementUsage(p)
  \/ \E p \in Procs, ok \in BOOLEAN : awaitUserFindOne(p, ok)
  \/ \E p \in Procs, ok \in BOOLEAN : awaitUserCreate(p, ok)
  \/ \E p \in Procs : routeReturn(p)

SpecFailures == Init /\ [][NextFailures]_vars

\* ------------------------------------------------------------------------
\* The rate limiters
\* ------------------------------------------------------------------------
\* the first client lists and deletes, the second one deletes
Callers == {<<"list", 1>>, <<"delete", 1>>, <<"delete", 2>>}

InitLimits ==
  /\ store = <<>>
  /\ startedServer
  /\ \E windows \in {"client", "store"} : limits = noLimits(windows)

NextLimits ==
  \/ \E k \in Callers : limited(k[1], k[2])
  \/ \E minutes \in {1, 60} : elapse(minutes)

SpecLimits == InitLimits /\ [][NextLimits]_vars

\* the time at which the window that counts the requests of k began
windowBegan(k) == limits.hits[k].resetTime - limiterOf[k[1]].windowMs

\* C29: a request to a limited route is answered 429 exactly when the limiter
\* has already let max requests of that client through in the running window
\* and less than one minute has gone by since that window began; once a
\* minute has gone by since the window began, the request is accepted
C29_AcceptedAgainAfterOneMinute ==
  [][\A k \in Callers :
       limited(k[1], k[2]) =>
         (limits'.last.status = 429
            <=> /\ limits.hits[k].count >= limiterOf[k[1]].max
                /\ now < windowBegan(k) + OneMinute)]_vars

\* ------------------------------------------------------------------------
\* The counters of a template: overlapping favorite toggles and meme creations
\* ------------------------------------------------------------------------
NextCounters ==
  \/ \E p \in Procs, u \in Users : favoriteTemplate(p, u, 1)
  \/ \E p \in Procs, u \in Users, customImage \in BOOLEAN : createMeme(p, u, 1, customImage)
  \/ favoriteSteps
  \/ \E p \in Procs : awaitCreateFindById(p)
  \/ \E p \in Procs, ok \in BOOLEAN : awaitUploadToCloudinary(p, ok)
  \/ \E p \in Procs : awaitCreateSave(p)
  \/ \E p \in Procs : awaitIncrementUsage(p)

SpecCounters == InitFavorites /\ [][NextCounters]_vars

\* ------------------------------------------------------------------------
\* The whole server: listings, uploads, favorites and memes, one request after
\* another
\* ------------------------------------------------------------------------
quiet == \A q \in Procs : ~inFlight(q) /\ ~handling(q)

\* listings are handled in the first slot, the requests of user 1 to the other
\* routes in the second; the
\* collection holds a template from the start, so no listing seeds it, and a
\* listing of page -1 fails in the store
ServerListings ==
  {[page |-> Empty, limit |-> Empty, search |-> Empty, category |-> Empty],
   [page |-> <<"-", "1">>, limit |-> Empty, search |-> Empty, category |-> Empty]}

InitServer == store = <<approvedTemplate>> /\ started

NextServer ==
  \/ \E r \in ServerListings : quiet /\ getTemplates(1, r)
  \/ quiet /\ served < ServerRequests /\ favoriteTemplate(2, 1, 1)
  \/ \E customImage \in BOOLEAN :
       quiet /\ served < ServerRequests /\ createMeme(2, 1, 1, customImage)
  \/ \E p \in Procs : awaitCheckDatabaseSeed(p)
  \/ \E p \in Procs : awaitFind(p)
  \/ \E p \in Procs : awaitCountDocuments(p)
  \/ \E p \in Procs : awaitRefreshFind(p)
  \/ \E p \in Procs : respond(p)
  \/ \E p \in Procs : return(p)
  \/ favoriteSteps
  \/ \E p \in Procs : awaitCreateFindById(p)
  \/ \E p \in Procs, ok \in BOOLEAN : awaitUploadToCloudinary(p, ok)
  \/ \E p \in Procs : awaitCreateSave(p)
  \/ \E p \in Procs : awaitIncrementUsage(p)
  \/ quiet /\ uploads < MaxStore
       /\ uploadTemplate(1, [name |-> Doge, category |-> Animals, width |-> 500, tags |-> Empty])
  \/ tick

SpecServer == InitServer /\ [][NextServer]_vars

\* ------------------------------------------------------------------------
\* Properties
\* ------------------------------------------------------------------------
unfiltered(r) == r.search = Empty /\ r.category = Empty
hit(p) == pc[p] = "done" /\ resp[p].fromCache
seededDocuments == {i \in DOMAIN store : store[i].category = popular}

\* k = ceil(total / lim) for lim > 0, stated without the division
isCeiling(k, total, lim) == (k - 1) * lim < total /\ total <= k * lim

\* C1: a call is answered from templateCache exactly when, at its arrival, a
\* snapshot existed and it was less than 15 minutes old; every other call is a
\* miss and goes on to the store.
C1_CachedOnlyWhileFresh ==
  \A p \in Procs :
    pc[p] # "idle" =>
      /\ hit(p) <=> (loc[p].age # 0 - 1 /\ loc[p].age < 15 * 60 * 1000)
      /\ pc[p] = "done" /\ resp[p].success /\ ~resp[p].fromCache => loc[p].haveFind /\ loc[p].haveCount

\* one call served from a snapshot 1 ms short of 15 minutes old, another one
\* missing on a snapshot exactly 15 minutes old
C1_Witness ==
  \E p, q \in Procs :
    /\ hit(p) /\ loc[p].age = 15 * 60 * 1000 - 1
    /\ inFlight(q) /\ loc[q].age = 15 * 60 * 1000

\* C2: a call with a search or a category is never answered from the cache, and
\* every template it returns satisfies the filter.
C2_FilteredNeverFromCache ==
  \A p \in Procs :
    pc[p] = "done" /\ resp[p].success /\ ~unfiltered(req[p]) =>
      /\ ~resp[p].fromCache
      /\ \A i \in DOMAIN resp[p].templates : matches(resp[p].templates[i], query(p))

\* C3: the refresh at the end of a successful miss stores the whole unfiltered
\* collection, as of the refresh read, in templateCache.data.
C3_RefreshStoresWholeCollection ==
  [][\A p \in Procs :
       pc[p] = "respond" /\ pc'[p] = "done" => templateCache'.data = loc[p].all]_vars

\* C4: for page >= 1 and limit in [1,100] a successful response, from the cache
\* or from the store, has at most limit items and totalPages = ceil(total/limit),
\* total being the snapshot length (cache) or the count of matching records (store).
C4_PageSizeAndTotalPages ==
  [][\A p \in Procs :
       /\ pc[p] = "query" /\ loc'[p].haveCount /\ ~loc[p].haveCount =>
            loc'[p].total = Cardinality({i \in DOMAIN store : matches(store[i], query(p))})
       /\ pc[p] # "done" /\ pc'[p] = "done" /\ resp'[p].success
          /\ queryPage(req'[p].page) >= 1 /\ queryLimit(req'[p].limit) \in 1..100 =>
            LET total == IF pc[p] = "idle" THEN Len(templateCache.data) ELSE loc[p].total
                lim == queryLimit(req'[p].limit)
            IN  /\ Len(resp'[p].templates) <= lim
                /\ isCeiling(resp'[p].pagination.totalPages, total, lim)
                /\ resp'[p].pagination.totalTemplates = total]_vars

\* a full page served from a snapshot that has more than one page, the last
\* page being short
C4_Witness ==
  \E p \in Procs :
    /\ hit(p) /\ page(p) >= 1 /\ limit(p) \in 1..100
    /\ Len(resp[p].templates) = limit(p)
    /\ resp[p].pagination.totalPages > 1

C6_PageAndLimitClamped ==
  \A p \in Procs :
    pc[p] # "idle" =>
      /\ page(p) >= 1
      /\ limit(p) \in 1..100
      /\ skip(p) >= 0
      /\ parseInt(req[p].page).nan \/ parseInt(req[p].page).val < 1 => page(p) = 1
      /\ routePageNum(req[p].page) >= 1
      /\ routeLimitNum(req[p].limit) \in 1..100
      /\ (routePageNum(req[p].page) - 1) * routeLimitNum(req[p].limit) >= 0

C8_ConcurrentSeedingDuplicates ==
  (\A p \in Procs : loc[p].shouldSeed /\ loc[p].ranInsert) =>
     /\ Cardinality(seededDocuments) = 2 * NumExternal
     /\ \A i \in seededDocuments :
          Cardinality({j \in seededDocuments : store[j].name = store[i].name}) >= 2

\* C9: a call whose external fetch fails ends with a 500 failure, writes no
\* template and leaves templateCache alone; nothing remembers the failure: while
\* the collection is empty no call is answered from the cache and every call
\* that finds the collection empty goes on to the external fetch again.
C9_FetchFailureLeavesNoTrace ==
  [][\A p \in Procs :
       /\ pc[p] = "axiosGet" /\ loc'[p].fetchFailed =>
            /\ pc'[p] = "done"
            /\ resp'[p].status = 500 /\ ~resp'[p].success /\ resp'[p].templates = <<>>
            /\ store' = store
            /\ templateCache' = templateCache
       /\ pc[p] = "idle" /\ pc'[p] # "idle" /\ store = <<>> => pc'[p] = "checkDatabaseSeed"
       /\ pc[p] = "checkDatabaseSeed" /\ pc'[p] # "checkDatabaseSeed" /\ store = <<>> =>
            pc'[p] = "axiosGet"]_vars

\* a call has failed on the external fetch and the next call is at the fetch again
C9_Witness ==
  \E p, q \in Procs :
    /\ pc[p] = "done" /\ loc[p].fetchFailed /\ resp[p].status = 500
    /\ pc[q] = "axiosGet"
    /\ store = <<>> /\ ~templateCache.hasData

\* C10: from the empty collection, with the external source answering its
\* records, getTemplates(page=1, limit=20) succeeds with all of them:
\* NumExternal items, totalPages = 1, totalTemplates = NumExternal.
C10_SeedingServesTheFixture ==
  \A p \in Procs :
    /\ pc[p] = "done" /\ loc[p].shouldSeed /\ loc[p].ranInsert
    /\ req[p] = noRequest /\ uploads = 0
    => /\ resp[p].success /\ resp[p].status = 200
       /\ Len(resp[p].templates) = NumExternal
       /\ resp[p].pagination.totalPages = 1
       /\ resp[p].pagination.totalTemplates = NumExternal

\* ------------------------------------------------------------------------
\* Properties of the meme routes
\* ------------------------------------------------------------------------
\* the k-th response is a successful like or unlike of meme id by user u
likeOf(k, u, id) ==
  /\ log[k].route = "like" /\ log[k].status = 200
  /\ log[k].user = u /\ log[k].id = id

\* no request on meme id was answered between the i-th and the j-th response
nothingBetween(i, j, id) ==
  \A k \in (i + 1)..(j - 1) : ~(log[k].route \in {"like", "delete"} /\ log[k].id = id)

differByOne(a, b) ==
  /\ a.kind = "number" /\ b.kind = "number"
  /\ a.num - b.num \in {1, 0 - 1}

\* C11: requests run one after another; of two consecutive like requests of
\* one user on one meme, the second leaves likesCount exactly 1 away from its
\* value before the first, and that user's next request on the meme, the
\* unlike, brings likesCount back to that value.
C11_LikeTwiceThenUnlike ==
  \A u \in Users, i, j \in DOMAIN log :
    i < j /\ likeOf(i, u, 1) /\ likeOf(j, u, 1) /\ nothingBetween(i, j, 1) =>
      /\ differByOne(log[j].likesCount, log[i].before)
      /\ \A k \in DOMAIN log :
           j < k /\ likeOf(k, u, 1) /\ nothingBetween(j, k, 1) =>
             log[k].likesCount = log[i].before

\* C12: once a like or unlike has been saved, the stored meme's likesCount is
\* the number of entries of its likes.
C12_LikesCountIsLength ==
  \A i \in DOMAIN memes :
    memes[i].__v > 0 => property(memes[i], "likesCount") = number(Len(memes[i].likes))

\* C13: a stored meme's likes holds each user id at most once, however the
\* like requests interleave.
C13_LikesHoldEachUserOnce ==
  \A i \in DOMAIN memes :
    \A a, b \in DOMAIN memes[i].likes : a # b => memes[i].likes[a] # memes[i].likes[b]

\* C14: when two like requests of different users on one meme both read the
\* meme before either saved it and both answered success, the stored meme
\* reflects only one of the two likes.
C14_ConcurrentLikesLoseOne ==
  \A p, q \in Procs :
    /\ rpc[p] = "done" /\ rreq[p].route = "like" /\ rresp[p].action = "liked"
    /\ rpc[q] = "done" /\ rreq[q].route = "like" /\ rresp[q].action = "liked"
    /\ rreq[p].user # rreq[q].user /\ rreq[p].id = rreq[q].id
    /\ rloc[p].doc.__v = rloc[q].doc.__v
    => \A i \in DOMAIN memes :
         memes[i]._id = rreq[p].id =>
           \/ indexOf(memes[i].likes, rreq[p].user) = 0 - 1
           \/ indexOf(memes[i].likes, rreq[q].user) = 0 - 1
           \/ property(memes[i], "likesCount") = number(Len(memes[i].likes) - 1)

\* ------------------------------------------------------------------------
\* Properties of the favorite toggle
\* ------------------------------------------------------------------------
\* the successful favorite responses user u has received for template id
toggles(u, id) ==
  SelectSeq(log, LAMBDA e : e.route = "favorite" /\ e.status = 200 /\ e.user = u /\ e.id = id)

\* the users who hold template id after their toggles so far
holders(id) == {u \in Users : Len(toggles(u, id)) % 2 = 1}

\* the template as it was when the server started
atStart(t) == CHOOSE d \in {newlyApproved, approvedTemplate} : d.name = t.name

quiescent == \A p \in Procs : ~handling(p)

\* C15: requests run one after another; a user's first, third, ... favorite
\* request on an active template answers 'added', puts the template into that
\* user's favoriteTemplates and raises popularity by 1; the second, fourth, ...
\* answers 'removed', takes it out and lowers popularity by 1: after each pair
\* the list and the popularity are what they were before it.
C15_FavoriteToggleRestores ==
  quiescent =>
    \A i \in DOMAIN store :
      /\ store[i].popularity = atStart(store[i]).popularity + Cardinality(holders(store[i]._id))
      /\ \A u \in Users :
           LET mine == toggles(u, store[i]._id)
           IN  /\ users[u].favoriteTemplates =
                    IF u \in holders(store[i]._id) THEN <<store[i]._id>> ELSE <<>>
               /\ \A k \in DOMAIN mine :
                    mine[k].action = IF k % 2 = 1 THEN "added" ELSE "removed"

\* a user has added and then removed the template; popularity and the list are back
C15_Witness ==
  /\ quiescent
  /\ \E u \in Users :
       /\ Len(toggles(u, 1)) = 2
       /\ toggles(u, 1)[1].action = "added" /\ toggles(u, 1)[2].action = "removed"
       /\ users[u].favoriteTemplates = <<>>
       /\ holders(1) = {}
  /\ store[1].popularity = atStart(store[1]).popularity

\* C16: every template's popularity is at least 0, whatever the initial
\* popularity (0 or more) and however the favorite requests interleave, two
\* overlapping requests of one user included.
C16_PopularityNeverNegative ==
  \A i \in DOMAIN store : store[i].popularity >= 0

\* ------------------------------------------------------------------------
\* Properties of the listings
\* ------------------------------------------------------------------------
\* the status of the stored template a returned item stands for
statusOf(item) == (CHOOSE d \in {store[i] : i \in DOMAIN store} : d._id = item._id).status

\* C19: every stored template's tags has no entry twice, every entry is free of
\* surrounding blanks, and there are at most 10 entries.
C19_TagsUniqueTrimmedAtMostTen ==
  \A i \in DOMAIN store :
    LET tags == store[i].tags
    IN  /\ \A a, b \in DOMAIN tags : a # b => tags[a] # tags[b]
        /\ \A a \in DOMAIN tags : trim(tags[a]) = tags[a]
        /\ Len(tags) <= MaxTags

\* uploads with repeated and padded tags and with ten tags have been stored,
\* the uploads with eleven entries have been refused
C19_Witness ==
  /\ \E i \in DOMAIN store : store[i].tags = <<<<"x">>, <<"y">>>>
  /\ \E i \in DOMAIN store : Len(store[i].tags) = MaxTags
  /\ processTags(<<" ", "x", " ", ",", " ", "y", ",", "x", ",", ",", "y", " ">>)
       = <<<<"x">>, <<"y">>, <<"x">>, <<"y">>>>

\* C18: every template a public listing returns has status 'active': the
\* items of a getTemplates response, from the cache or from the store, and
\* the pages GET /api/templates and GET /api/templates/preview return.
C18_ListingsReturnOnlyActive ==
  /\ \A p \in Procs :
       pc[p] = "done" /\ resp[p].success =>
         \A k \in DOMAIN resp[p].templates : statusOf(resp[p].templates[k]) = active
  /\ \A r \in Requests :
       \A docs \in listTemplates(store, r) \cup previewTemplates(store, r) :
         \A k \in DOMAIN docs : docs[k].status = active

\* a comes strictly before b in every read sorted by popularity descending,
\* then creation time descending
strictlyBefore(a, b) ==
  \/ a.popularity > b.popularity
  \/ a.popularity = b.popularity /\ a.createdAt > b.createdAt

\* items are the records at positions first + 1 .. first + size of the records
\* of coll matching q, in some order the sort allows: each item is the selection
\* of a matching record, no record occurs twice, the item at position n has
\* fewer than n matching records that must precede it and at least n that
\* need not follow it, and only the end of the list cuts the page short
isPageOf(items, coll, q, first, size) ==
  LET matching == {i \in DOMAIN coll : matches(coll[i], q)}
  IN  /\ Len(items) = IF Cardinality(matching) - first < 0 THEN 0
                      ELSE IF Cardinality(matching) - first < size
                           THEN Cardinality(matching) - first ELSE size
      /\ \A k, m \in DOMAIN items : k # m => items[k]._id # items[m]._id
      /\ \A k \in DOMAIN items :
           \E i \in matching :
             /\ items[k] = select(coll[i])
             /\ Cardinality({j \in matching : strictlyBefore(coll[j], coll[i])}) < first + k
             /\ Cardinality({j \in matching : ~strictlyBefore(coll[i], coll[j])}) >= first + k

\* C20: on the store path the read returns exactly the records at positions
\* (page-1)*limit+1 through page*limit of the matching records ordered by
\* popularity descending, then creation time descending, the response carries
\* these records, and totalPages is ceil(count/limit).
C20_StorePathReturnsThePage ==
  [][\A p \in Procs :
       /\ pc[p] = "query" /\ ~loc[p].haveFind /\ loc'[p].haveFind =>
            /\ isPageOf(loc'[p].templates, store, query(p),
                        (page(p) - 1) * limit(p), limit(p))
       /\ pc[p] = "respond" /\ pc'[p] = "done" =>
            /\ resp'[p].success /\ ~resp'[p].fromCache
            /\ resp'[p].templates = loc[p].templates
            /\ isCeiling(resp'[p].pagination.totalPages, loc[p].total, limit(p))]_vars


\* C21: templateCache is assigned only by a getTemplates call that missed the
\* cache and succeeds; uploads, favorite toggles, usage increments, meme
\* creations, cache hits and failed calls leave its data and lastUpdated as
\* they are, so a template written meanwhile stays out of cached listings.
C21_OnlyASuccessfulMissAssignsTheCache ==
  [][templateCache' # templateCache =>
       \E p \in Procs :
         /\ pc[p] = "respond" /\ pc'[p] = "done"
         /\ loc[p].age = 0 - 1 \/ loc[p].age >= expiresIn
         /\ resp'[p].success /\ ~resp'[p].fromCache]_vars

\* a listing answered from the cache after an upload, a favorite toggle and a
\* meme creation that all succeeded: the stored template they wrote is not in
\* the snapshot, and the cached copy of the other one has the old counters
C21_Witness ==
  \E p \in Procs :
    /\ hit(p)
    /\ \E i \in DOMAIN store :
         \A k \in DOMAIN templateCache.data : templateCache.data[k]._id # store[i]._id
    /\ \E i \in DOMAIN store, k \in DOMAIN templateCache.data :
         /\ templateCache.data[k]._id = store[i]._id
         /\ templateCache.data[k].popularity < store[i].popularity
         /\ templateCache.data[k].usageCount < store[i].usageCount


\* the responses to the favorite requests for template id, and the memes
\* created from it
favoriteResponses(id) == SelectSeq(log, LAMBDA e : e.route = "favorite" /\ e.id = id)
created(id) == SelectSeq(log, LAMBDA e : e.route = "create" /\ e.id = id /\ e.status = 201)

\* C22: however the requests interleave, once k favorite requests by k
\* different users on an active template have completed, each has answered
\* 'added' and the popularity is its initial value plus k; once k meme creations
\* from a template have succeeded, usageCount is its initial value plus k.
C22_NoIncrementIsLost ==
  quiescent =>
    \A i \in DOMAIN store :
      LET favs == favoriteResponses(store[i]._id)
      IN  /\ (\A k, m \in DOMAIN favs : k # m => favs[k].user # favs[m].user) =>
               /\ \A k \in DOMAIN favs : favs[k].status = 200 /\ favs[k].action = "added"
               /\ store[i].popularity = atStart(store[i]).popularity + Len(favs)
          /\ store[i].usageCount = atStart(store[i]).usageCount + Len(created(store[i]._id))

\* both users have added the template, each request in a slot of its own, and
\* a meme has been created from it
C22_Witness ==
  /\ rpc = [p \in Procs |-> "done"]
  /\ \A p \in Procs : rreq[p].route = "favorite" /\ rresp[p].action = "added"
  /\ rreq[1].user # rreq[2].user
  /\ store[1].popularity = atStart(store[1]).popularity + 2
  /\ Len(created(1)) = 1
  /\ store[1].usageCount = 1


\* C23: a favorite request for a template that is absent or not 'active' ends
\* with the 404 response at its first step, and no step of its handler changes
\* a user's favoriteTemplates or a template's popularity.
C23_FavoriteOfMissingTemplateIs404 ==
  [][\A p \in Procs :
       /\ rreq[p].route = "favorite" /\ handling(p) /\ rpc'[p] # rpc[p]
       /\ ~\E i \in DOMAIN store : store[i]._id = rreq[p].id /\ store[i].status = active
       => /\ rpc'[p] = "done"
          /\ rresp'[p].status = 404 /\ ~rresp'[p].success
          /\ users' = users
          /\ store' = store]_vars

\* a 404 for the pending template and one for the id that names no template,
\* while the other user holds the active template
C23_Witness ==
  /\ \E k \in DOMAIN log : log[k].route = "favorite" /\ log[k].id = 2 /\ log[k].status = 404
  /\ \E p \in Procs : /\ rpc[p] = "done" /\ rreq[p].id = Len(store) + 1
                      /\ rresp[p].status = 404
  /\ \E u \in Users : users[u].favoriteTemplates = <<1>>
  /\ \A i \in DOMAIN store : store[i].popularity = moderatedCatalog[i].popularity + (IF i = 1 THEN 1 ELSE 0)


\* C24: a delete request by a user who is not the owner of the meme it names
\* answers 403 at the ownership test, issues no asset-deletion call and leaves
\* the meme stored; whenever a meme leaves the store, the step is the removal
\* of a delete request by its owner, which answers success.
C24_OnlyTheOwnerDeletes ==
  [][/\ \A p \in Procs :
          /\ rpc[p] = "delete" /\ rpc'[p] # rpc[p]
          /\ \E i \in DOMAIN memes : memes[i]._id = rreq[p].id /\ memes[i].user # rreq[p].user
          => /\ rpc'[p] = "done"
             /\ rresp'[p].status = 403 /\ ~rresp'[p].success
             /\ assets' = assets
             /\ memes' = memes
     /\ \A i \in DOMAIN memes :
          (\A k \in DOMAIN memes' : memes'[k]._id # memes[i]._id) =>
            \E p \in Procs :
              /\ rreq[p].route = "delete" /\ rreq[p].id = memes[i]._id
              /\ rreq[p].user = memes[i].user
              /\ rpc[p] # "done" /\ rpc'[p] = "done"
              /\ rresp'[p].status = 200 /\ rresp'[p].success]_vars

\* the other user's delete request was refused with 403 and the meme was still
\* stored; then its owner's request removed it
C24_Witness ==
  /\ memes = <<>> /\ inserted = 1
  /\ \E k, m \in DOMAIN log :
       /\ k < m
       /\ log[k].route = "delete" /\ log[k].status = 403
       /\ log[m].route = "delete" /\ log[m].status = 200
       /\ log[k].user # log[m].user
  /\ assets = <<>>


\* C30: however the cache-missing getTemplates calls interleave,
\* templateCache.lastUpdated never decreases: a refresh whose timestamp was
\* taken earlier never replaces the snapshot and timestamp installed by a
\* refresh whose timestamp was taken later.
C30_LastUpdatedNeverDecreases ==
  [][templateCache'.lastUpdated >= templateCache.lastUpdated]_vars


\* C27: a create-meme request whose template is found and whose custom image,
\* if it carries one, was uploaded stores a meme and succeeds; the meme's
\* imageUrl is the template's imageUrl without a custom image, and with one it
\* is the URL the asset host returned, publicId being the returned handle.
C27_CreatedMemeImage ==
  [][\A p \in Procs :
       rpc[p] = "new Meme.save" /\ rpc'[p] # rpc[p] =>
         /\ rpc'[p] # "done"
         /\ Len(memes') = Len(memes) + 1
         /\ LET meme == memes'[Len(memes')]
            IN  IF rreq[p].customImage
                THEN /\ meme.imageUrl = uploaderResult.secure_url
                     /\ property(meme, "publicId") = string(uploaderResult.public_id)
                ELSE \E i \in DOMAIN store :
                       store[i]._id = rreq[p].id /\ meme.imageUrl = store[i].imageUrl]_vars


\* needle occurs in hay when letter case is ignored
occursIn(needle, hay) == includes(toLowerCase(hay), toLowerCase(needle))

\* C28: the query built from search and category selects exactly the
\* templates t with (search absent, or search occurring case-insensitively in
\* t.name or t.category) and (category absent, or t.category equal to the
\* lower-cased category), every template when both are absent; and a category
\* filter naming a stored template's category selects that template.
C28_QuerySelectsByNameAndCategory ==
  [][\A p \in Procs :
       pc[p] = "query" /\ ~loc[p].haveCount /\ loc'[p].haveCount =>
         LET search == req[p].search
             category == req[p].category
             selected == {i \in DOMAIN store :
                            /\ \/ search = Empty
                               \/ occursIn(search, store[i].name)
                               \/ occursIn(search, store[i].category)
                            /\ category = Empty \/ store[i].category = toLowerCase(category)}
         IN  /\ loc'[p].total = Cardinality(selected)
             /\ search = Empty /\ category = Empty => loc'[p].total = Len(store)
             /\ \A i \in DOMAIN store :
                  search = Empty /\ category = store[i].category => loc'[p].total >= 1]_vars


\* the upload handler of slot p has ended, with a response or without one
uploadEnded(p) == rreq[p].route = "upload" /\ rpc[p] \in {"done", "rejected"}

\* C26: when the upload to the asset host succeeded and storing the template
\* or the user update that follows fails, the upload handler deletes the
\* uploaded asset by its public id and answers 500 'Server error during upload'.
C26_FailedUploadCleansUp ==
  \A p \in Procs :
    uploadEnded(p) /\ truthy(rloc[p].publicId) /\ rresp[p].status # 201 =>
      /\ \E k \in DOMAIN assets :
           assets[k] = [call |-> "destroy", publicId |-> rloc[p].publicId.str]
      /\ rresp[p].status = 500
      /\ rresp[p].message = "Server error during upload"


\* C25: every request to a template, meme or auth handler that hits a failure
\* of the store or of an external service ends with one response, and the
\* response has the failure shape {success: false, message, error?}.
C25_FailuresHaveOneUniformResponse ==
  \A p \in Procs :
    rpc[p] \in {"done", "rejected"} /\ rresp[p].status \notin {200, 201} =>
      /\ rpc[p] = "done"
      /\ rresp[p].status >= 400
      /\ {"success", "message"} \subseteq rresp[p].keys
      /\ rresp[p].keys \subseteq {"success", "message", "error"}
      /\ ~rresp[p].success

\* the users whose favoriteTemplates holds template id
favoritedBy(id) == {u \in Users : indexOf(users[u].favoriteTemplates, id) # 0 - 1}

\* C31: whenever no favorite request is under way (after requests that
\* failed between the popularity update and the user save, and after
\* overlapping requests of one user), each template's popularity minus its
\* initial popularity is the number of users whose favoriteTemplates holds it.
C31_PopularityCountsTheHolders ==
  quiescent =>
    \A i \in DOMAIN store :
      store[i].popularity - atStart(store[i]).popularity
        = Cardinality(favoritedBy(store[i]._id))

C33_CachedPageIsTheStorePage ==
  [][\A p \in Procs :
       LET r == req'[p]
           pageNum == queryPage(r.page)
           limitNum == queryLimit(r.limit)
       IN  /\ pc[p] = "idle" /\ pc'[p] = "done"
           /\ cacheIsFresh(templateCache, now)
           /\ templateCache.data = store
           /\ r.search = Empty /\ r.category = Empty
           /\ pageNum >= 1 /\ limitNum >= 1
           => /\ resp'[p].fromCache
              /\ isPageOf(selectAll(resp'[p].templates), store,
                          buildTemplateQuery(Empty, Empty),
                          (pageNum - 1) * limitNum, limitNum)]_vars

====
